---- MODULE Spec2Model ----
(***************************************************************************)
(* Model of adb_util (android input replayer):                             *)
(*   - the persisted recording format (commands/input.rs, Display/FromStr) *)
(*   - the event reducer convert_events_to_input (commands/input.rs)       *)
(*   - the recording controller InputRecorder and its background task      *)
(*     (commands/input_event_recorder.rs)                                  *)
(*   - the playback controller InputPlayer and its background task         *)
(*     (commands/input_player.rs)                                          *)
(* Text is modelled as a sequence of one-character strings, so that        *)
(* formatting and parsing are computed character by character.             *)
(***************************************************************************)
EXTENDS Integers, Sequences, FiniteSets, TLC

(* ------------------------------ bounds --------------------------------- *)
\* longest action sequence handed to serialize_inputs
MaxCodecLen == 2
\* longest action sequence the reducer is followed to
MaxActions == 2
\* the playback loop counter `repetion` is followed up to this value and
\* stays there
MaxRepetion == 2
\* most lines the recording task reads from the capture process
MaxLines == 2
MaxReadLines == 3
MaxStopCalls == 2

(* ------------------------- values and results -------------------------- *)
None == [some |-> FALSE]
Some(v) == [some |-> TRUE, val |-> v]
Err == [ok |-> FALSE]
Ok(v) == [ok |-> TRUE, val |-> v]

\* decimal digits of u32::MAX and of i32::MAX (|i32::MIN| is one more)
U32MaxDigits == <<"4", "2", "9", "4", "9", "6", "7", "2", "9", "5">>
I32MaxDigits == <<"2", "1", "4", "7", "4", "8", "3", "6", "4", "7">>
I32MinDigits == <<"2", "1", "4", "7", "4", "8", "3", "6", "4", "8">>

(* --------------------------- text primitives --------------------------- *)
Digits == <<"0", "1", "2", "3", "4", "5", "6", "7", "8", "9">>
IsDigit(c) == \E i \in 1..10 : Digits[i] = c
DigitVal(c) == (CHOOSE i \in 1..10 : Digits[i] = c) - 1

\* char::is_whitespace / u8::is_ascii_whitespace on the characters used here
IsWhitespace(c) == c \in {" ", "\t", "\n", "\r"}

RECURSIVE ToDec(_)
ToDec(n) == IF n < 10 THEN <<Digits[n + 1]>>
            ELSE ToDec(n \div 10) \o <<Digits[(n % 10) + 1]>>

\* Display of an integer
FmtInt(n) == IF n < 0 THEN <<"-">> \o ToDec(-n) ELSE ToDec(n)

RECURSIVE Spaces(_)
Spaces(n) == IF n <= 0 THEN <<>> ELSE <<" ">> \o Spaces(n - 1)

\* {:w} on a number: right-aligned, never truncated
PadLeft(s, w) == Spaces(w - Len(s)) \o s
\* {:w} on a string: left-aligned, never truncated
PadRight(s, w) == s \o Spaces(w - Len(s))

RECURSIVE TrimStart(_)
TrimStart(s) == IF s /= <<>> /\ IsWhitespace(Head(s)) THEN TrimStart(Tail(s)) ELSE s
RECURSIVE TrimEnd(_)
TrimEnd(s) == IF s /= <<>> /\ IsWhitespace(s[Len(s)])
              THEN TrimEnd(SubSeq(s, 1, Len(s) - 1)) ELSE s
\* str::trim
Trim(s) == TrimEnd(TrimStart(s))

\* str::split_once(' '): the text before and after the first space
SplitOnce(s) ==
    IF \E i \in 1..Len(s) : s[i] = " "
    THEN LET i == CHOOSE k \in 1..Len(s) : s[k] = " " /\ \A j \in 1..(k - 1) : s[j] /= " "
         IN  Some(<<SubSeq(s, 1, i - 1), SubSeq(s, i + 1, Len(s))>>)
    ELSE None

\* str::split_ascii_whitespace, collected
RECURSIVE SplitAsciiWhitespace(_)
SplitAsciiWhitespace(s) ==
    LET t == TrimStart(s) IN
    IF t = <<>> THEN <<>>
    ELSE LET n == IF \E i \in 1..Len(t) : IsWhitespace(t[i])
                  THEN (CHOOSE k \in 1..Len(t) :
                            IsWhitespace(t[k]) /\ \A j \in 1..(k - 1) : ~IsWhitespace(t[j])) - 1
                  ELSE Len(t)
         IN  <<SubSeq(t, 1, n)>> \o SplitAsciiWhitespace(SubSeq(t, n + 1, Len(t)))

RECURSIVE DecVal(_)
DecVal(s) == IF s = <<>> THEN 0 ELSE DecVal(SubSeq(s, 1, Len(s) - 1)) * 10 + DigitVal(s[Len(s)])

AllDigits(s) == s /= <<>> /\ \A i \in 1..Len(s) : IsDigit(s[i])

RECURSIVE StripZeros(_)
StripZeros(s) == IF Len(s) > 1 /\ Head(s) = "0" THEN StripZeros(Tail(s)) ELSE s

\* digit strings of equal length compared as numbers
RECURSIVE DigitsLeq(_, _)
DigitsLeq(a, b) ==
    IF a = <<>> THEN TRUE
    ELSE IF DigitVal(Head(a)) /= DigitVal(Head(b)) THEN DigitVal(Head(a)) < DigitVal(Head(b))
    ELSE DigitsLeq(Tail(a), Tail(b))

\* the number written by the digits s is at most the one written by max
FitsIn(s, max) ==
    LET t == StripZeros(s) IN
    Len(t) < Len(max) \/ (Len(t) = Len(max) /\ DigitsLeq(t, max))

\* <u32 as FromStr>::from_str: optional '+', then digits, in range
ParseU32(s) ==
    LET body == IF s /= <<>> /\ Head(s) = "+" THEN Tail(s) ELSE s IN
    IF AllDigits(body) /\ FitsIn(body, U32MaxDigits) THEN Ok(DecVal(body)) ELSE Err

\* <i32 as FromStr>::from_str: optional '+' or '-', then digits, in range
ParseI32(s) ==
    LET neg  == s /= <<>> /\ Head(s) = "-"
        body == IF s /= <<>> /\ Head(s) \in {"+", "-"} THEN Tail(s) ELSE s
    IN  IF AllDigits(body) /\ FitsIn(body, IF neg THEN I32MinDigits ELSE I32MaxDigits)
        THEN Ok(IF neg THEN -DecVal(body) ELSE DecVal(body)) ELSE Err

(* --------------------- persisted format: keywords ---------------------- *)
StrTap == <<"t", "a", "p">>
StrSwipe == <<"s", "w", "i", "p", "e">>
StrKeyevent == <<"k", "e", "y", "e", "v", "e", "n", "t">>
StrKeycode == <<"K", "E", "Y", "C", "O", "D", "E", "_">>
StrPower == StrKeycode \o <<"P", "O", "W", "E", "R">>
StrBack == StrKeycode \o <<"B", "A", "C", "K">>
StrHome == StrKeycode \o <<"H", "O", "M", "E">>
StrMenu == StrKeycode \o <<"M", "E", "N", "U">>

Keys == {"Power", "Back", "Home", "Menu"}

(* ----------------------- actions (struct Input) ------------------------ *)
Tap(x, y) == [kind |-> "Tap", x |-> x, y |-> y]
Swipe(x0, y0, x1, y1, ms) ==
    [kind |-> "Swipe", x0 |-> x0, y0 |-> y0, x1 |-> x1, y1 |-> y1, milliseconds |-> ms]
Key(k) == [kind |-> "Key", key |-> k]
InputWithTimestamp(input, ts) == [input |-> input, timestamp_milliseconds |-> ts]

(* ------------------------- Display (writing) --------------------------- *)
FmtTap(t) == PadLeft(FmtInt(t.x), 4) \o <<" ">> \o PadLeft(FmtInt(t.y), 4)

FmtSwipe(s) ==
    PadLeft(FmtInt(s.x0), 4) \o <<" ">> \o PadLeft(FmtInt(s.y0), 4) \o <<" ">>
    \o PadLeft(FmtInt(s.x1), 4) \o <<" ">> \o PadLeft(FmtInt(s.y1), 4) \o <<" ">>
    \o PadLeft(FmtInt(s.milliseconds), 4)

FmtKey(k) ==
    CASE k.key = "Power" -> StrPower
      [] k.key = "Back"  -> StrBack
      [] k.key = "Home"  -> StrHome
      [] k.key = "Menu"  -> StrMenu

FmtInput(i) ==
    CASE i.kind = "Tap"   -> PadRight(StrTap, 6) \o <<" ">> \o FmtTap(i)
      [] i.kind = "Swipe" -> PadRight(StrSwipe, 6) \o <<" ">> \o FmtSwipe(i)
      [] i.kind = "Key"   -> PadRight(StrKeyevent, 6) \o <<" ">> \o FmtKey(i)

FmtInputWithTimestamp(a) ==
    PadLeft(FmtInt(a.timestamp_milliseconds), 6) \o <<" ">> \o FmtInput(a.input)

\* serialize_inputs: writeln!(writer, "{i}") for every action
RECURSIVE SerializeInputs(_)
SerializeInputs(inputs) ==
    IF inputs = <<>> THEN <<>>
    ELSE FmtInputWithTimestamp(Head(inputs)) \o <<"\n">> \o SerializeInputs(Tail(inputs))

(* ------------------------- FromStr (reading) --------------------------- *)
\* a mutant of ParseTap: the second field is parsed without trim()
ParseTapNoTrim(s) ==
    LET sp == SplitOnce(Trim(s)) IN
    IF ~sp.some THEN Err
    ELSE LET x == ParseI32(Trim(sp.val[1]))
             y == ParseI32(sp.val[2])
         IN  IF x.ok /\ y.ok THEN Ok(Tap(x.val, y.val)) ELSE Err

ParseTap(s) ==
    LET sp == SplitOnce(Trim(s)) IN
    IF ~sp.some THEN Err
    ELSE LET x == ParseI32(Trim(sp.val[1]))
             y == ParseI32(Trim(sp.val[2]))
         IN  IF x.ok /\ y.ok THEN Ok(Tap(x.val, y.val)) ELSE Err

ParseSwipe(s) ==
    LET toks == SplitAsciiWhitespace(Trim(s)) IN
    IF Len(toks) < 5 THEN Err
    ELSE LET x0 == ParseI32(toks[1])
             y0 == ParseI32(toks[2])
             x1 == ParseI32(toks[3])
             y1 == ParseI32(toks[4])
             ms == ParseU32(toks[5])
         IN  IF x0.ok /\ y0.ok /\ x1.ok /\ y1.ok /\ ms.ok
             THEN Ok(Swipe(x0.val, y0.val, x1.val, y1.val, ms.val)) ELSE Err

ParseKey(s) ==
    LET t == Trim(s) IN
    CASE t = StrPower -> Ok(Key("Power"))
      [] t = StrBack  -> Ok(Key("Back"))
      [] t = StrHome  -> Ok(Key("Home"))
      [] t = StrMenu  -> Ok(Key("Menu"))
      [] OTHER        -> Err

ParseInput(s) ==
    LET sp == SplitOnce(Trim(s)) IN
    IF ~sp.some THEN Err
    ELSE LET first  == Trim(sp.val[1])
             second == sp.val[2]
         IN  CASE first = StrTap      -> ParseTap(second)
               [] first = StrSwipe    -> ParseSwipe(second)
               [] first = StrKeyevent -> ParseKey(second)
               [] OTHER               -> Err

ParseInputWithTimestamp(s) ==
    LET sp == SplitOnce(Trim(s)) IN
    IF ~sp.some THEN Err
    ELSE LET ts    == ParseU32(sp.val[1])
             input == ParseInput(Trim(sp.val[2]))
         IN  IF ts.ok /\ input.ok THEN Ok(InputWithTimestamp(input.val, ts.val)) ELSE Err

\* BufRead::read_line: the text up to and including the first newline
ReadLine(text) ==
    IF \E i \in 1..Len(text) : text[i] = "\n"
    THEN LET i == CHOOSE k \in 1..Len(text) :
                      text[k] = "\n" /\ \A j \in 1..(k - 1) : text[j] /= "\n"
         IN  SubSeq(text, 1, i)
    ELSE text

\* a mutant of DeserLoop: a line that fails to parse is skipped
RECURSIVE DeserLoopSkipsBadLines(_, _)
DeserLoopSkipsBadLines(text, res) ==
    LET linebuf == ReadLine(text) IN
    IF Len(linebuf) = 0 THEN Ok(res)
    ELSE LET parsed == ParseInputWithTimestamp(linebuf)
             rest == SubSeq(text, Len(linebuf) + 1, Len(text))
         IN  IF ~parsed.ok THEN DeserLoopSkipsBadLines(rest, res)
             ELSE DeserLoopSkipsBadLines(rest, Append(res, parsed.val))

\* deser_inputs_fmt: one action per line; the first line that fails to parse
\* ends the read with the error
RECURSIVE DeserLoop(_, _)
DeserLoop(text, res) ==
    LET linebuf == ReadLine(text) IN
    IF Len(linebuf) = 0 THEN Ok(res)
    ELSE LET parsed == ParseInputWithTimestamp(linebuf) IN
         IF ~parsed.ok THEN Err
         ELSE DeserLoop(SubSeq(text, Len(linebuf) + 1, Len(text)), Append(res, parsed.val))

DeserInputsFmt(text) == DeserLoop(text, <<>>)

(* ---------------------- low-level events (input_event.rs) -------------- *)
BtnTouch(t) == [kind |-> "BtnTouch", t |-> t]
AbsMtTrackingId(v) == [kind |-> "AbsMtTrackingId", v |-> v]
AbsMtSlot(v) == [kind |-> "AbsMtSlot", v |-> v]
AbsMtPosX(v) == [kind |-> "AbsMtPosX", v |-> v]
AbsMtPosY(v) == [kind |-> "AbsMtPosY", v |-> v]
KeyPower(t) == [kind |-> "KeyPower", t |-> t]
InputEventInfo(ts, nr, ev) == [timestamp_milliseconds |-> ts, event_nr |-> nr, event |-> ev]

(* -------------- the event line parser (input_event_parser.rs) ---------- *)
\* str::trim_end_matches(c) and str::trim_start_matches(c) for one character
RECURSIVE TrimEndMatches(_, _)
TrimEndMatches(s, c) ==
    IF s /= <<>> /\ s[Len(s)] = c THEN TrimEndMatches(SubSeq(s, 1, Len(s) - 1), c) ELSE s
RECURSIVE TrimStartMatches(_, _)
TrimStartMatches(s, c) ==
    IF s /= <<>> /\ Head(s) = c THEN TrimStartMatches(Tail(s), c) ELSE s
\* str::trim_matches(c)
TrimMatches(s, c) == TrimEndMatches(TrimStartMatches(s, c), c)

\* str::trim_start_matches(prefix) for a text prefix: removed as often as it leads
RECURSIVE TrimStartMatchesStr(_, _)
TrimStartMatchesStr(s, prefix) ==
    IF Len(s) >= Len(prefix) /\ SubSeq(s, 1, Len(prefix)) = prefix
    THEN TrimStartMatchesStr(SubSeq(s, Len(prefix) + 1, Len(s)), prefix)
    ELSE s

\* str::split(c), collected: the pieces between the occurrences of c
RECURSIVE SplitChar(_, _)
SplitChar(s, c) ==
    IF \E i \in 1..Len(s) : s[i] = c
    THEN LET i == CHOOSE k \in 1..Len(s) : s[k] = c /\ \A j \in 1..(k - 1) : s[j] /= c
         IN  <<SubSeq(s, 1, i - 1)>> \o SplitChar(SubSeq(s, i + 1, Len(s)), c)
    ELSE <<s>>

StrDev == <<"d", "e", "v">>
StrInput == <<"i", "n", "p", "u", "t">>
StrEvent == <<"e", "v", "e", "n", "t">>
StrAdd == <<"a", "d", "d">>
StrDevice == <<"d", "e", "v", "i", "c", "e">>
StrName == <<"n", "a", "m", "e", ":">>
StrBtnTouch == <<"B", "T", "N", "_", "T", "O", "U", "C", "H">>
StrKeyPower == <<"K", "E", "Y", "_", "P", "O", "W", "E", "R">>
StrAbsMt == <<"A", "B", "S", "_", "M", "T", "_">>
StrAbsMtTrackingId == StrAbsMt \o <<"T", "R", "A", "C", "K", "I", "N", "G", "_", "I", "D">>
StrAbsMtSlot == StrAbsMt \o <<"S", "L", "O", "T">>
StrAbsMtPositionX == StrAbsMt \o <<"P", "O", "S", "I", "T", "I", "O", "N", "_", "X">>
StrAbsMtPositionY == StrAbsMt \o <<"P", "O", "S", "I", "T", "I", "O", "N", "_", "Y">>
StrDown == <<"D", "O", "W", "N">>
StrUp == <<"U", "P">>

\* ParsedGetEventOutput::parse_input_event_name: "/dev/input/event3" gives 3
ParseEventPath(event_str) ==
    LET ev_toks == SplitChar(event_str, "/") IN
    IF Len(ev_toks) < 4 THEN Err
    ELSE IF ev_toks[1] /= <<>> \/ ev_toks[2] /= StrDev \/ ev_toks[3] /= StrInput THEN Err
    ELSE ParseI32(TrimStartMatchesStr(ev_toks[4], StrEvent))

\* a mutant of ParseTouchType: whatever is not DOWN is taken as UP
ParseTouchTypeLenient(s) == IF s = StrDown THEN Ok("Down") ELSE Ok("Up")

\* FromStr for TouchType
ParseTouchType(s) ==
    IF s = StrDown THEN Ok("Down") ELSE IF s = StrUp THEN Ok("Up") ELSE Err

HexDigitsLower == Digits \o <<"a", "b", "c", "d", "e", "f">>
HexDigitsUpper == Digits \o <<"A", "B", "C", "D", "E", "F">>
IsHexDigit(c) == \E i \in 1..16 : HexDigitsLower[i] = c \/ HexDigitsUpper[i] = c
HexDigitVal(c) == (CHOOSE i \in 1..16 : HexDigitsLower[i] = c \/ HexDigitsUpper[i] = c) - 1
RECURSIVE HexVal(_)
HexVal(s) == IF s = <<>> THEN 0 ELSE HexVal(SubSeq(s, 1, Len(s) - 1)) * 16 + HexDigitVal(s[Len(s)])

\* parse_hex_i32: u32::from_str_radix(s, 16), then `as i32`: eight digits with
\* the top bit set are a negative number
ParseHexI32(s) ==
    LET body == IF s /= <<>> /\ Head(s) = "+" THEN Tail(s) ELSE s
        sig  == StripZeros(body)
    IN  IF body = <<>> \/ \E i \in 1..Len(body) : ~IsHexDigit(body[i]) THEN Err
        ELSE IF Len(sig) > 8 THEN Err
        ELSE IF Len(sig) < 8 THEN Ok(HexVal(sig))
        ELSE LET top == HexDigitVal(Head(sig)) IN
             Ok((IF top >= 8 THEN top - 16 ELSE top) * 268435456 + HexVal(Tail(sig)))

\* parse_input_event_name: the sub-type decides; another sub-type is no event
ParseInputEventName(ev_type, ev_sub_type, ev_value) ==
    LET touch == ParseTouchType(ev_value)
        hex   == ParseHexI32(ev_value)
    IN  CASE ev_sub_type = StrBtnTouch ->
                 IF touch.ok THEN Ok(Some(BtnTouch(touch.val))) ELSE Err
          [] ev_sub_type = StrAbsMtTrackingId ->
                 IF hex.ok THEN Ok(Some(AbsMtTrackingId(hex.val))) ELSE Err
          [] ev_sub_type = StrAbsMtSlot ->
                 IF hex.ok THEN Ok(Some(AbsMtSlot(hex.val))) ELSE Err
          [] ev_sub_type = StrAbsMtPositionX ->
                 IF hex.ok THEN Ok(Some(AbsMtPosX(hex.val))) ELSE Err
          [] ev_sub_type = StrAbsMtPositionY ->
                 IF hex.ok THEN Ok(Some(AbsMtPosY(hex.val))) ELSE Err
          [] ev_sub_type = StrKeyPower ->
                 IF touch.ok THEN Ok(Some(KeyPower(touch.val))) ELSE Err
          [] OTHER -> Ok(None)

\* ---- decimal numbers of any size: sequences of the digits 0..9, the most
\* significant first, without leading zeros (the empty sequence is 0) ----
RECURSIVE BigStrip(_)
BigStrip(a) == IF a /= <<>> /\ Head(a) = 0 THEN BigStrip(Tail(a)) ELSE a

RECURSIVE BigLessEq(_, _)
BigLessEq(a, b) ==
    IF a = <<>> THEN TRUE
    ELSE IF Head(a) /= Head(b) THEN Head(a) < Head(b)
    ELSE BigLessEq(Tail(a), Tail(b))

\* a < b
BigLess(a, b) == Len(a) < Len(b) \/ (Len(a) = Len(b) /\ a /= b /\ BigLessEq(a, b))

\* a * k + carry, k below 2^20
RECURSIVE BigMulSmall(_, _, _)
BigMulSmall(a, k, carry) ==
    IF a = <<>> THEN (IF carry = 0 THEN <<>> ELSE BigMulSmall(<<>>, k, carry \div 10) \o <<carry % 10>>)
    ELSE LET v == a[Len(a)] * k + carry IN
         BigMulSmall(SubSeq(a, 1, Len(a) - 1), k, v \div 10) \o <<v % 10>>

\* a divided by k, k below 2^20: the quotient (with leading zeros) and the
\* remainder, rem being the remainder brought in from the left
RECURSIVE BigDivSmall(_, _, _)
BigDivSmall(a, k, rem) ==
    IF a = <<>> THEN [q |-> <<>>, r |-> rem]
    ELSE LET v == rem * 10 + Head(a)
             rest == BigDivSmall(Tail(a), k, v % k)
         IN  [q |-> <<v \div k>> \o rest.q, r |-> rest.r]

BigIsOdd(a) == a /= <<>> /\ a[Len(a)] % 2 = 1

BigSucc(a) == BigMulSmall(a, 1, 1)

RECURSIVE Zeros(_)
Zeros(n) == IF n <= 0 THEN <<>> ELSE <<0>> \o Zeros(n - 1)

Pow2(n) == 2 ^ n
Big2p31 == <<2, 1, 4, 7, 4, 8, 3, 6, 4, 8>>
Big2p32 == <<4, 2, 9, 4, 9, 6, 7, 2, 9, 6>>
Big2p36 == <<6, 8, 7, 1, 9, 4, 7, 6, 7, 3, 6>>
Big2p48 == <<2, 8, 1, 4, 7, 4, 9, 7, 6, 7, 1, 0, 6, 5, 6>>
Big2p52 == <<4, 5, 0, 3, 5, 9, 9, 6, 2, 7, 3, 7, 0, 4, 9, 6>>
Big2p53 == <<9, 0, 0, 7, 1, 9, 9, 2, 5, 4, 7, 4, 0, 9, 9, 2>>

\* the value of a number below 2^31
RECURSIVE BigVal(_)
BigVal(a) == IF a = <<>> THEN 0 ELSE BigVal(SubSeq(a, 1, Len(a) - 1)) * 10 + a[Len(a)]

\* a / 10^f rounded to the nearest integer, ties to even
BigDivPow10Round(a, f) ==
    LET padded == Zeros(f - Len(a)) \o a
        q == BigStrip(SubSeq(padded, 1, Len(padded) - f))
        r == SubSeq(padded, Len(padded) - f + 1, Len(padded))
        up == /\ f > 0
              /\ \/ r[1] > 5
                 \/ /\ r[1] = 5
                    /\ \/ \E i \in 2..f : r[i] /= 0
                       \/ BigIsOdd(q)
    IN  IF up THEN BigSucc(q) ELSE q

\* floor(a / 10^f)
BigDivPow10Floor(a, f) == BigStrip(SubSeq(a, 1, Len(a) - f))

\* the f64 nearest to n / 10^f (n > 0, the quotient below 2^52), as
\* [m, e]: the f64 is m / 2^e with 2^52 <= m <= 2^53
RECURSIVE F64Nearest(_, _, _)
F64Nearest(a, f, e) ==
    LET q == BigDivPow10Floor(a, f) IN
    IF BigLess(q, Big2p36) THEN F64Nearest(BigMulSmall(a, Pow2(16), 0), f, e + 16)
    ELSE IF BigLess(q, Big2p48) THEN F64Nearest(BigMulSmall(a, Pow2(4), 0), f, e + 4)
    ELSE IF BigLess(q, Big2p52) THEN F64Nearest(BigMulSmall(a, 2, 0), f, e + 1)
    ELSE [m |-> BigDivPow10Round(a, f), e |-> e]

\* p rounded to 53 bits, ties to even, for p = 1000 * m with 2^52 <= m <=
\* 2^53 (so p has 62 or 63 bits): [m, s], the f64 product being m * 2^s
F64Round53(p) ==
    LET h9 == BigDivSmall(p, Pow2(9), 0)
        q9 == BigStrip(h9.q)
        h10 == BigDivSmall(q9, 2, 0)
        q10 == BigStrip(h10.q)
    IN  IF BigLess(q9, Big2p53)
        THEN [m |-> IF h9.r >= 256 /\ (h9.r > 256 \/ BigIsOdd(q9)) THEN BigSucc(q9) ELSE q9,
              s |-> 9]
        ELSE [m |-> IF h10.r = 1 /\ (h9.r > 0 \/ BigIsOdd(q10)) THEN BigSucc(q10) ELSE q10,
              s |-> 10]

\* floor(a / 2^n)
RECURSIVE BigShiftRight(_, _)
BigShiftRight(a, n) ==
    IF n <= 0 \/ a = <<>> THEN a
    ELSE IF n >= 16 THEN BigShiftRight(BigStrip(BigDivSmall(a, Pow2(16), 0).q), n - 16)
    ELSE BigStrip(BigDivSmall(a, Pow2(n), 0).q)

\* `as u32` on a non-negative whole f64: saturating; a value of 2^31 or more
\* is written as the negative number with the same 32 bits
BigAsU32(a) ==
    IF ~BigLess(a, Big2p32) THEN -1
    ELSE IF BigLess(a, Big2p31) THEN BigVal(a)
    ELSE 10 * (BigVal(SubSeq(a, 1, 9)) - 429496728) + (a[10] - 16)

\* (x * 1000.0).floor() as u32 for the f64 x nearest to digits * 10^scale,
\* digits without leading zeros
MillisOf(digits, scale) ==
    LET magnitude == Len(digits) + scale IN
    IF digits = <<>> \/ magnitude <= -4 THEN 0
    ELSE IF magnitude >= 8 THEN -1
    ELSE LET x == F64Nearest(digits \o Zeros(scale), IF scale < 0 THEN -scale ELSE 0, 0)
             y == F64Round53(x.m \o <<0, 0, 0>>)
         IN  BigAsU32(BigShiftRight(y.m, x.e - y.s))

IsInfOrNan(t) ==
    LET low == [i \in 1..Len(t) |->
                   CASE t[i] = "I" -> "i" [] t[i] = "N" -> "n" [] t[i] = "F" -> "f"
                     [] t[i] = "T" -> "t" [] t[i] = "Y" -> "y" [] t[i] = "A" -> "a"
                     [] OTHER -> t[i]]
    IN  low \in {<<"i", "n", "f">>, <<"i", "n", "f", "i", "n", "i", "t", "y">>, <<"n", "a", "n">>}

\* <f64 as FromStr>::from_str, then (timestamp_seconds * 1000.0).floor() as
\* u32: an optional sign; inf, infinity or nan; or digits with an optional
\* point, at least one digit, and an optional exponent. `as u32` gives 0 for
\* a negative number and for NaN and u32::MAX for what is too large.
ParseSecondsToMillis(s) ==
    LET neg  == s /= <<>> /\ Head(s) = "-"
        body == IF s /= <<>> /\ Head(s) \in {"+", "-"} THEN Tail(s) ELSE s
        epos == IF \E i \in 1..Len(body) : body[i] \in {"e", "E"}
                THEN CHOOSE i \in 1..Len(body) : body[i] \in {"e", "E"}
                         /\ \A j \in 1..(i - 1) : body[j] \notin {"e", "E"}
                ELSE 0
        mant == IF epos = 0 THEN body ELSE SubSeq(body, 1, epos - 1)
        expo == IF epos = 0 THEN <<>> ELSE SubSeq(body, epos + 1, Len(body))
        eneg == expo /= <<>> /\ Head(expo) = "-"
        edig == IF expo /= <<>> /\ Head(expo) \in {"+", "-"} THEN Tail(expo) ELSE expo
        parts == SplitChar(mant, ".")
        whole == parts[1]
        frac  == IF Len(parts) = 2 THEN parts[2] ELSE <<>>
        all   == whole \o frac
        esig  == StripZeros(edig)
        emag  == IF Len(esig) > 4 THEN 10000 ELSE DecVal(esig)
        exp10 == IF epos = 0 THEN 0 ELSE IF eneg THEN -emag ELSE emag
        digits == BigStrip([i \in 1..Len(all) |-> DigitVal(all[i])])
    IN  IF IsInfOrNan(body)
        THEN Ok(IF neg \/ body[1] \in {"n", "N"} THEN 0 ELSE -1)
        ELSE IF Len(parts) > 2 \/ all = <<>> THEN Err
        ELSE IF \E i \in 1..Len(all) : ~IsDigit(all[i]) THEN Err
        ELSE IF epos > 0 /\ ~AllDigits(edig) THEN Err
        ELSE IF neg THEN Ok(0)
        ELSE Ok(MillisOf(digits, exp10 - Len(frac)))

AddDevice(device_nr, event_nr) ==
    [kind |-> "AddDevice", device_nr |-> device_nr, event_nr |-> event_nr]
Name(name) == [kind |-> "Name", name |-> name]
Input(input) == [kind |-> "Input", input |-> input]

\* ParsedGetEventOutput::try_from_str: Result<Option<Self>, ()>
TryFromStr(s) ==
    LET tokens == SplitAsciiWhitespace(s) IN
    IF tokens = <<>> THEN Ok(None)
    ELSE IF tokens[1] = StrAdd THEN
        IF Len(tokens) < 2 \/ tokens[2] /= StrDevice THEN Err
        ELSE IF Len(tokens) < 3 \/ ~ParseI32(TrimEndMatches(tokens[3], ":")).ok THEN Err
        ELSE IF Len(tokens) < 4 \/ ~ParseEventPath(tokens[4]).ok THEN Err
        ELSE Ok(Some(AddDevice(ParseI32(TrimEndMatches(tokens[3], ":")).val,
                               ParseEventPath(tokens[4]).val)))
    ELSE IF tokens[1] = StrName THEN
        IF Len(tokens) < 2 THEN Err
        ELSE Ok(Some(Name(TrimMatches(tokens[2], "\""))))
    ELSE IF tokens[1] = <<"[">> THEN
        LET timestamp_milliseconds == ParseSecondsToMillis(TrimEndMatches(tokens[2], "]"))
            event_nr == ParseEventPath(TrimEndMatches(tokens[3], ":"))
            maybe_event == ParseInputEventName(tokens[4], tokens[5], tokens[6])
        IN  IF Len(tokens) < 2 \/ ~timestamp_milliseconds.ok THEN Err
            ELSE IF Len(tokens) < 3 \/ ~event_nr.ok THEN Err
            ELSE IF Len(tokens) < 6 THEN Err
            ELSE IF ~maybe_event.ok THEN Err
            ELSE IF ~maybe_event.val.some THEN Ok(None)
            ELSE Ok(Some(Input(InputEventInfo(timestamp_milliseconds.val, event_nr.val,
                                              maybe_event.val.val))))
    ELSE Ok(None)

\* Result::ok().flatten(): an error and "no record" are both nothing
OkFlatten(r) == IF r.ok THEN r.val ELSE None

(* ------------------ the reducer: convert_events_to_input ---------------- *)
\* i32::abs_diff
AbsDiff(a, b) == IF a >= b THEN a - b ELSE b - a

\* a mutant of U32Sub: the subtrahend is forgotten
U32SubForgetsSubtrahend(a, b) == a

\* u32 values of 2^31 and more are written as the negative number with the
\* same 32 bits (v - 2^32), so that the wrapping subtraction of a release
\* build is the subtraction of integers; the values given to the model are
\* below 2^31
U32Sub(a, b) == a - b

\* `a < b` and `a > b` on u32
U32Lt(a, b) == IF (a < 0) = (b < 0) THEN a < b ELSE b < 0
U32Gt(a, b) == U32Lt(b, a)

DownInput(x, y, time) == [x |-> x, y |-> y, time |-> time]

\* the locals of convert_events_to_input before the loop
ReducerStart ==
    [is_slot_0_active |-> TRUE, down |-> None, last_x |-> 0, last_y |-> 0, result |-> <<>>]

\* a mutant of IsSwipe: the comparisons are not strict
IsSwipeNotStrict(distance_moved, down_dur_ms, tap_threshold_distance, tap_threshold_ms) ==
    ~U32Lt(distance_moved, tap_threshold_distance) \/ ~U32Lt(down_dur_ms, tap_threshold_ms)

IsSwipe(distance_moved, down_dur_ms, tap_threshold_distance, tap_threshold_ms) ==
    U32Gt(distance_moved, tap_threshold_distance) \/ U32Gt(down_dur_ms, tap_threshold_ms)

\* a mutant of TracksPosition: positions of every slot are taken
TracksEverySlot(st) == TRUE

\* the guard `if is_slot_0_active` of the position arms
TracksPosition(st) == st.is_slot_0_active

\* a mutant of TouchDown: a pending down is kept
TouchDownFirstWins(st, relative_time_stamp) ==
    IF st.down.some THEN st
    ELSE [st EXCEPT !.down = Some(DownInput(st.last_x, st.last_y, relative_time_stamp))]

\* TouchType::Down: the pending down is (re)set to the last position and this time
TouchDown(st, relative_time_stamp) ==
    [st EXCEPT !.down = Some(DownInput(st.last_x, st.last_y, relative_time_stamp))]

\* a mutant of TouchUp: the action is stamped with the time of the up
TouchUpAtUpTime(st, relative_time_stamp, tap_threshold_distance, tap_threshold_ms) ==
    IF ~st.down.some THEN st
    ELSE LET d == st.down.val
             distance_moved == AbsDiff(d.x, st.last_x) + AbsDiff(d.y, st.last_y)
             down_dur_ms == U32Sub(relative_time_stamp, d.time)
             input == IF IsSwipe(distance_moved, down_dur_ms,
                                 tap_threshold_distance, tap_threshold_ms)
                      THEN Swipe(d.x, d.y, st.last_x, st.last_y, down_dur_ms)
                      ELSE Tap(d.x, d.y)
         IN  [st EXCEPT !.down = None,
                        !.result = Append(@, InputWithTimestamp(input, relative_time_stamp))]

\* TouchType::Up: down.take(), and an action when there was a down
TouchUp(st, relative_time_stamp, tap_threshold_distance, tap_threshold_ms) ==
    IF ~st.down.some THEN st
    ELSE LET d == st.down.val
             distance_moved == AbsDiff(d.x, st.last_x) + AbsDiff(d.y, st.last_y)
             down_dur_ms == U32Sub(relative_time_stamp, d.time)
             input == IF IsSwipe(distance_moved, down_dur_ms,
                                 tap_threshold_distance, tap_threshold_ms)
                      THEN Swipe(d.x, d.y, st.last_x, st.last_y, down_dur_ms)
                      ELSE Tap(d.x, d.y)
         IN  [st EXCEPT !.down = None,
                        !.result = Append(@, InputWithTimestamp(input, d.time))]

\* a mutant of IsPowerDown: every transition of the power key counts
IsPowerTransition(ev) == ev.kind = "KeyPower"

\* the arm `InputEvent::KeyPower(t) if t == TouchType::Down`
IsPowerDown(ev) == ev.kind = "KeyPower" /\ ev.t = "Down"

\* one iteration of `for e in inputs.iter()`
ReduceStep(st, e, first_time_stamp, tap_threshold_distance, tap_threshold_ms) ==
    LET relative_time_stamp == U32Sub(e.timestamp_milliseconds, first_time_stamp)
        ev == e.event
    IN  CASE ev.kind = "AbsMtSlot" -> [st EXCEPT !.is_slot_0_active = (ev.v = 0)]
          [] ev.kind = "AbsMtPosX" /\ TracksPosition(st) -> [st EXCEPT !.last_x = ev.v]
          [] ev.kind = "AbsMtPosY" /\ TracksPosition(st) -> [st EXCEPT !.last_y = ev.v]
          [] ev.kind = "BtnTouch" /\ st.is_slot_0_active ->
                IF ev.t = "Up"
                THEN TouchUp(st, relative_time_stamp, tap_threshold_distance, tap_threshold_ms)
                ELSE TouchDown(st, relative_time_stamp)
          [] IsPowerDown(ev) ->
                [st EXCEPT !.result =
                    Append(@, InputWithTimestamp(Key("Power"), relative_time_stamp))]
          [] OTHER -> st

RECURSIVE ReduceFrom(_, _, _, _, _)
ReduceFrom(st, inputs, first_time_stamp, tap_threshold_distance, tap_threshold_ms) ==
    IF inputs = <<>> THEN st
    ELSE ReduceFrom(ReduceStep(st, Head(inputs), first_time_stamp,
                               tap_threshold_distance, tap_threshold_ms),
                    Tail(inputs), first_time_stamp, tap_threshold_distance, tap_threshold_ms)

ConvertEventsToInput(inputs, tap_threshold_distance, tap_threshold_ms) ==
    IF inputs = <<>> THEN <<>>
    ELSE ReduceFrom(ReducerStart, inputs, inputs[1].timestamp_milliseconds,
                    tap_threshold_distance, tap_threshold_ms).result

(* ------------------------------- state --------------------------------- *)
VARIABLES
    c_inputs,   \* codec: the action sequence the caller holds
    c_text,     \* codec: what serialize_inputs wrote (None before the write)
    c_read,     \* codec: what deser_inputs_fmt returned (None before the read)
    r_thr,      \* reducer: [distance, ms], the two tap thresholds of the call
    r_first,    \* reducer: first_time_stamp (None while no event was given)
    r_event,    \* reducer: the event of the last loop iteration (None before)
    r_down_was, \* reducer: `down` as it was before the last loop iteration
    r_st,       \* reducer: is_slot_0_active, down, last_x, last_y, result
    r_pc,       \* reducer: "running", or "panicked" on an arithmetic overflow
    p_inputs,   \* player: the action sequence given to InputPlayer::new
    p_ctl,      \* player: the InputPlayer value: stop_send (is Some), dropped
    p_stop,     \* player: the oneshot stop channel: "empty", "sent", "received"
    p_status,   \* player: the value in the watch channel
    p_task,     \* player: the spawned task: pc, repetion, idx, last_millis, sleep
    p_obs,      \* player: observations: calls made, signals sent, where the task
                \* was at the first stop(), the last action issued in this loop
    rec_ctl,    \* recorder: the InputRecorder value: process_kill_send (is Some),
                \* result_recv (is Some), rx_inner (its Receiver still holds the
                \* channel), dropped
    rec_kill,   \* recorder: the oneshot kill channel: "empty", "sent", "received"
    rec_result, \* recorder: the oneshot result channel
    rec_status, \* recorder: the messages queued in the status channel
    rec_task,   \* recorder: the spawned task, its two readers and the child
    rec_ret,    \* recorder: what the last call on the InputRecorder returned
    rec_obs,    \* recorder: observations: calls made, kill signals sent, whether
                \* a result was retrieved, RecordedInput messages published
    a_input,    \* application: AirApp::input, the recording that can be played
    a_recordings,   \* application: how often "Start Recording" was clicked
    a_old_players,  \* application: playback tasks whose InputPlayer was dropped
    a_old_recorders, \* application: recording tasks whose InputRecorder was dropped
    e_capture,  \* line parser: the lines of a capture, with time and event
    e_parsed    \* line parser: what try_from_str returned for the lines read

codecVars == <<c_inputs, c_text, c_read>>
reducerVars == <<r_thr, r_first, r_event, r_down_was, r_st, r_pc>>
playerVars == <<p_inputs, p_ctl, p_stop, p_status, p_task, p_obs>>
recorderVars == <<rec_ctl, rec_kill, rec_result, rec_status, rec_task, rec_ret, rec_obs>>
appVars == <<a_input, a_recordings, a_old_players, a_old_recorders>>
parserVars == <<e_capture, e_parsed>>
vars == <<codecVars, reducerVars, playerVars, recorderVars, appVars, parserVars>>

\* the state of a component that is not running in a specification
CodecIdle == c_inputs = <<>> /\ c_text = None /\ c_read = None
ReducerIdle ==
    r_thr = [distance |-> 0, ms |-> 0] /\ r_first = None /\ r_event = None
    /\ r_down_was = None /\ r_st = ReducerStart /\ r_pc = "idle"

\* the application around the controllers is not part of the specification
AppIdle ==
    a_input = None /\ a_recordings = 0 /\ a_old_players = <<>> /\ a_old_recorders = <<>>

\* no capture line is handed to the line parser on its own
ParserIdle == e_capture = <<>> /\ e_parsed = <<>>

\* no InputPlayer was constructed
PlayerAbsent ==
    /\ p_inputs = <<>>
    /\ p_ctl = [stop_send |-> FALSE, dropped |-> TRUE]
    /\ p_stop = "empty"
    /\ p_status = [state |-> "NotStarted"]
    /\ p_task = [pc |-> "absent", repetion |-> 0, idx |-> 0, last_millis |-> 0, sleep |-> None]
    /\ p_obs = [call |-> "none", signals |-> 0, stops |-> 0, stop_at |-> None, issued |-> None]

\* no InputRecorder was constructed
RecorderAbsent ==
    /\ rec_ctl = [process_kill_send |-> FALSE, result_recv |-> FALSE,
                  rx_inner |-> FALSE, dropped |-> TRUE]
    /\ rec_kill = "empty"
    /\ rec_result = [state |-> "empty"]
    /\ rec_status = <<>>
    /\ rec_task = [pc |-> "absent", child |-> "none", reader |-> "none",
                   err_reader |-> "none", inputs |-> <<>>, lines |-> 0]
    /\ rec_ret = [call |-> "none"]
    /\ rec_obs = [call |-> "none", signals |-> 0, stops |-> 0, got |-> FALSE, published |-> 0,
                  printed |-> <<>>]

(* ------------------ specification of the persisted format -------------- *)
CodecTimes == {0, 50, 1234567}
CodecInputs ==
    {Tap(x, 5) : x \in {-12, 12345}}
    \cup {Swipe(x0, 0, 12345, 5, ms) : x0 \in {-12, 5}, ms \in {0, 300}}
    \cup {Key(k) : k \in Keys}

LastTimestamp(inputs) ==
    IF inputs = <<>> THEN 0 ELSE inputs[Len(inputs)].timestamp_milliseconds

CodecInit ==
    /\ c_inputs = <<>>
    /\ c_text = None
    /\ c_read = None
    /\ ReducerIdle
    /\ PlayerAbsent
    /\ RecorderAbsent
    /\ AppIdle
    /\ ParserIdle

\* the caller appends one more action, later than or at the last one
CodecPush ==
    /\ ~c_text.some
    /\ Len(c_inputs) < MaxCodecLen
    /\ \E i \in CodecInputs, ts \in CodecTimes :
          /\ ts >= LastTimestamp(c_inputs)
          /\ c_inputs' = Append(c_inputs, InputWithTimestamp(i, ts))
    /\ UNCHANGED <<c_text, c_read, reducerVars, playerVars, recorderVars, appVars, parserVars>>

CodecSerialize ==
    /\ ~c_text.some
    /\ c_text' = Some(SerializeInputs(c_inputs))
    /\ UNCHANGED <<c_inputs, c_read, reducerVars, playerVars, recorderVars, appVars, parserVars>>

CodecDeser ==
    /\ c_text.some
    /\ ~c_read.some
    /\ c_read' = Some(DeserInputsFmt(c_text.val))
    /\ UNCHANGED <<c_inputs, c_text, reducerVars, playerVars, recorderVars, appVars, parserVars>>

CodecNext == CodecPush \/ CodecSerialize \/ CodecDeser

SpecCodec == CodecInit /\ [][CodecNext]_vars

(* --------------- reading a text that was not written by us ------------- *)
\* lines as serialize_inputs writes them
ReadGoodLines ==
    {FmtInputWithTimestamp(a) \o <<"\n">> :
        a \in {InputWithTimestamp(Tap(1, 2), 0), InputWithTimestamp(Key("Back"), 50)}}

\* lines that are no action: a non-numeric timestamp, an unknown kind, a
\* missing field, an empty line
ReadBadLines ==
    { <<"x", " ">> \o StrTap \o <<" ", "1", " ", "2", "\n">>,
      <<"5", " ", "d", "r", "a", "g", " ", "1", " ", "2", "\n">>,
      <<"5", " ">> \o StrTap \o <<" ", "1", "\n">>,
      <<"\n">> }

RECURSIVE ConcatLines(_)
ConcatLines(lines) ==
    IF lines = <<>> THEN <<>> ELSE Head(lines) \o ConcatLines(Tail(lines))

\* the texts handed to deser_inputs_fmt
ReadTexts ==
    {ConcatLines(ls) : ls \in UNION {[1..n -> ReadGoodLines \cup ReadBadLines] : n \in 1..MaxReadLines}}

ReadInit ==
    /\ c_inputs = <<>>
    /\ c_text \in {Some(t) : t \in ReadTexts}
    /\ c_read = None
    /\ ReducerIdle
    /\ PlayerAbsent
    /\ RecorderAbsent
    /\ AppIdle
    /\ ParserIdle

SpecRead == ReadInit /\ [][CodecDeser]_vars

(* ------- reading lines whose tokens are separated by any whitespace ----- *)
\* what may stand between two adjacent tokens of a line
Separators == { <<" ">>, <<" ", " ">>, <<"\t">> }

SpacedActions ==
    { InputWithTimestamp(Tap(1, 2), 0),
      InputWithTimestamp(Swipe(1, 2, 3, 4, 30), 50),
      InputWithTimestamp(Key("Back"), 50) }

\* the tokens of the line that serialize_inputs writes for an action
TokensOf(a) ==
    <<FmtInt(a.timestamp_milliseconds)>> \o
    CASE a.input.kind = "Tap" -> <<StrTap, FmtInt(a.input.x), FmtInt(a.input.y)>>
      [] a.input.kind = "Swipe" ->
            <<StrSwipe, FmtInt(a.input.x0), FmtInt(a.input.y0), FmtInt(a.input.x1),
              FmtInt(a.input.y1), FmtInt(a.input.milliseconds)>>
      [] a.input.kind = "Key" -> <<StrKeyevent, FmtKey(a.input)>>

\* the tokens, with seps[i] between token i and token i + 1
RECURSIVE JoinTokens(_, _)
JoinTokens(tokens, seps) ==
    IF Len(tokens) = 1 THEN tokens[1]
    ELSE tokens[1] \o seps[1] \o JoinTokens(Tail(tokens), Tail(seps))

SpacedLines(a) ==
    {JoinTokens(TokensOf(a), seps) \o <<"\n">> :
        seps \in [1..(Len(TokensOf(a)) - 1) -> Separators]}

\* a one-line text of the tokens of an action is handed to deser_inputs_fmt
SpacedInit ==
    /\ \E a \in SpacedActions :
          /\ c_inputs = <<a>>
          /\ c_text \in {Some(t) : t \in SpacedLines(a)}
    /\ c_read = None
    /\ ReducerIdle
    /\ PlayerAbsent
    /\ RecorderAbsent
    /\ AppIdle
    /\ ParserIdle

SpecReadSpaced == SpacedInit /\ [][CodecDeser]_vars

(* ---------------------- specification of the reducer ------------------- *)
TapDistances == {1}
TapDurations == {0}
CaptureTimes == {5, 6}
PosX == {0, 1}
PosY == {0, 1}
Slots == {0, 1}
ReducerEvents ==
    {BtnTouch(t) : t \in {"Up", "Down"}} \cup {KeyPower(t) : t \in {"Up", "Down"}}
    \cup {AbsMtSlot(v) : v \in Slots}
    \cup {AbsMtPosX(v) : v \in PosX} \cup {AbsMtPosY(v) : v \in PosY}

ReducerInit ==
    /\ r_thr \in [distance : TapDistances, ms : TapDurations]
    /\ r_first = None
    /\ r_event = None
    /\ r_down_was = None
    /\ r_st = ReducerStart
    /\ r_pc = "running"
    /\ CodecIdle
    /\ PlayerAbsent
    /\ RecorderAbsent
    /\ AppIdle
    /\ ParserIdle

\* the loop takes the next event of the capture; capture times do not decrease
ReducerFeed(ev) ==
    \E ts \in CaptureTimes :
        LET e == InputEventInfo(ts, 3, ev)
            first == IF r_first.some THEN r_first.val ELSE ts
            next == ReduceStep(r_st, e, first, r_thr.distance, r_thr.ms)
        IN  /\ r_event.some => ts >= r_event.val.timestamp_milliseconds
            /\ Len(next.result) <= MaxActions
            /\ r_first' = Some(first)
            /\ r_event' = Some(e)
            /\ r_down_was' = r_st.down
            /\ r_st' = next
            /\ UNCHANGED <<r_thr, r_pc, codecVars, playerVars, recorderVars, appVars, parserVars>>

ReducerNext == \E ev \in ReducerEvents : ReducerFeed(ev)

SpecReducer == ReducerInit /\ [][ReducerNext]_vars

(* --------- the reducer over events in whatever order of time ----------- *)
AnyOrderEvents == {BtnTouch("Up"), BtnTouch("Down"), KeyPower("Down"), AbsMtPosX(1)}

\* a u32 subtraction of this iteration overflows: the relative time stamp,
\* or the duration of the touch that an up closes
StepOverflows(st, e, first_time_stamp) ==
    LET relative_time_stamp == U32Sub(e.timestamp_milliseconds, first_time_stamp) IN
    \/ U32Lt(e.timestamp_milliseconds, first_time_stamp)
    \/ /\ e.event = BtnTouch("Up")
       /\ st.is_slot_0_active
       /\ st.down.some
       /\ U32Lt(relative_time_stamp, st.down.val.time)

\* the loop takes the next event; an overflowing subtraction panics (a build
\* with overflow checks) or wraps (a build without)
ReducerFeedAnyOrder(ev) ==
    \E ts \in CaptureTimes :
        LET e == InputEventInfo(ts, 3, ev)
            first == IF r_first.some THEN r_first.val ELSE ts
            next == ReduceStep(r_st, e, first, r_thr.distance, r_thr.ms)
        IN  /\ r_pc = "running"
            /\ Len(next.result) <= MaxActions
            /\ r_first' = Some(first)
            /\ r_event' = Some(e)
            /\ r_down_was' = r_st.down
            /\ \/ r_st' = next /\ r_pc' = r_pc
               \/ StepOverflows(r_st, e, first) /\ r_st' = r_st /\ r_pc' = "panicked"
            /\ UNCHANGED <<r_thr, codecVars, playerVars, recorderVars, appVars, parserVars>>

ReducerNextAnyOrder == \E ev \in AnyOrderEvents : ReducerFeedAnyOrder(ev)

SpecReducerAnyOrder == ReducerInit /\ [][ReducerNextAnyOrder]_vars

(* --------------- the playback controller (input_player.rs) ------------- *)
DelayMsBetweenLoops == 200

NotStarted == [state |-> "NotStarted"]
Repeating(repetion, reptetion_element) ==
    [state |-> "Repeating", repetion |-> repetion, reptetion_element |-> reptetion_element]
Finished == [state |-> "Finished"]

\* the action sequences handed to InputPlayer::new
PlayerInputs ==
    { <<>>,
      <<InputWithTimestamp(Tap(1, 2), 0)>>,
      <<InputWithTimestamp(Key("Power"), 20), InputWithTimestamp(Tap(1, 2), 20)>>,
      <<InputWithTimestamp(Tap(1, 2), 0), InputWithTimestamp(Key("Power"), 50),
        InputWithTimestamp(Swipe(1, 2, 3, 4, 30), 200)>> }

\* InputPlayer::new: the channels are created, the task is spawned
PlayerInit ==
    /\ p_inputs \in PlayerInputs
    /\ p_ctl = [stop_send |-> TRUE, dropped |-> FALSE]
    /\ p_stop = "empty"
    /\ p_status = NotStarted
    /\ p_task = [pc |-> "loop_head", repetion |-> 0, idx |-> 0, last_millis |-> 0, sleep |-> None]
    /\ p_obs = [call |-> "none", signals |-> 0, stops |-> 0, stop_at |-> None, issued |-> None]
    /\ CodecIdle
    /\ ReducerIdle
    /\ RecorderAbsent
    /\ AppIdle
    /\ ParserIdle

PlayerIsRunning == p_ctl.stop_send

\* stop_send after `self.stop_send.take()`
StopSendAfterStop(stop_send) == FALSE

\* the body of InputPlayer::stop
PlayerStopBody(call) ==
    /\ p_ctl' = [p_ctl EXCEPT !.stop_send = StopSendAfterStop(@),
                              !.dropped = (@ \/ call = "drop")]
    /\ p_stop' = IF p_ctl.stop_send /\ p_stop = "empty" THEN "sent" ELSE p_stop
    /\ p_obs' = [p_obs EXCEPT
                    !.call = call,
                    !.stops = IF @ < MaxStopCalls THEN @ + 1 ELSE @,
                    !.signals = IF p_ctl.stop_send THEN @ + 1 ELSE @,
                    !.stop_at = IF p_ctl.stop_send
                                THEN Some([pc |-> p_task.pc, idx |-> p_task.idx,
                                           repetion |-> p_task.repetion])
                                ELSE @]
    /\ UNCHANGED <<p_inputs, p_status, p_task, codecVars, reducerVars, recorderVars, appVars, parserVars>>

\* the owner calls stop()
PlayerStop ==
    /\ p_task.pc /= "absent"
    /\ ~p_ctl.dropped
    /\ PlayerStopBody("stop")

\* the owner drops the InputPlayer: Drop calls stop()
PlayerDrop ==
    /\ p_task.pc /= "absent"
    /\ ~p_ctl.dropped
    /\ PlayerStopBody("drop")

\* a mutant of StopObserved: every check ends the playback
StopObservedAlways(stop) == TRUE

\* a mutant of StopObserved: only a closed channel ends the playback
StopObservedOnlyClosed(stop) == stop = "closed"

\* stop_recv.try_recv() is Ok(_) or Err(Closed)
StopObserved(stop) == stop \in {"sent", "closed"}

\* a mutant of Publish: the value is never stored
PublishNothing(status) == p_status

\* watch::Sender::send stores the value while a receiver exists
Publish(status) == IF p_ctl.dropped THEN p_status ELSE status

\* 'main_loop: loop { let mut last_millis = 0; for ... }
PlayerLoopHead ==
    /\ p_task.pc = "loop_head"
    /\ p_task' = [p_task EXCEPT
                    !.pc = IF p_inputs = <<>> THEN "after_for" ELSE "check",
                    !.idx = 0, !.last_millis = 0]
    /\ p_obs' = [p_obs EXCEPT !.issued = None]
    /\ UNCHANGED <<p_inputs, p_ctl, p_stop, p_status, codecVars, reducerVars, recorderVars, appVars, parserVars>>

\* `input.timestamp_milliseconds - last_millis` for the action the task is
\* at has a minuend below its subtrahend
PlayerUnderflows(inputs, task) ==
    U32Lt(inputs[task.idx + 1].timestamp_milliseconds, task.last_millis)

\* the stop check, then diff and last_millis, for the action at idx; a
\* subtraction that underflows wraps (a build without overflow checks) or
\* panics (a build with them): the task ends and drops its channel ends
PlayerCheck ==
    /\ p_task.pc = "check"
    /\ LET input == p_inputs[p_task.idx + 1]
           diff == U32Sub(input.timestamp_milliseconds, p_task.last_millis)
       IN  IF StopObserved(p_stop)
           THEN /\ p_task' = [p_task EXCEPT !.pc = "finish"]
                /\ p_stop' = IF p_stop = "sent" THEN "received" ELSE p_stop
           ELSE \/ /\ p_task' = [p_task EXCEPT
                                   !.pc = IF U32Gt(diff, 0) THEN "sleep" ELSE "publish",
                                   !.last_millis = input.timestamp_milliseconds,
                                   !.sleep = IF U32Gt(diff, 0) THEN Some(diff) ELSE None]
                   /\ UNCHANGED p_stop
                \/ /\ PlayerUnderflows(p_inputs, p_task)
                   /\ p_task' = [p_task EXCEPT !.pc = "panicked"]
                   /\ p_stop' = "receiver_dropped"
    /\ UNCHANGED <<p_inputs, p_ctl, p_status, p_obs, codecVars, reducerVars, recorderVars, appVars, parserVars>>

\* tokio::time::sleep(diff) ends
PlayerWake ==
    /\ p_task.pc = "sleep"
    /\ p_task' = [p_task EXCEPT !.pc = "publish", !.sleep = None]
    /\ UNCHANGED <<p_inputs, p_ctl, p_stop, p_status, p_obs, codecVars, reducerVars, recorderVars, appVars, parserVars>>

\* status_send.send(Repeating { repetion, Some(idx) })
PlayerPublish ==
    /\ p_task.pc = "publish"
    /\ p_status' = Publish(Repeating(p_task.repetion, Some(p_task.idx)))
    /\ p_task' = [p_task EXCEPT !.pc = "issue"]
    /\ UNCHANGED <<p_inputs, p_ctl, p_stop, p_obs, codecVars, reducerVars, recorderVars, appVars, parserVars>>

\* Command::new("adb.exe") ... .spawn(): the action at idx is issued
PlayerIssue ==
    /\ p_task.pc = "issue"
    /\ p_obs' = [p_obs EXCEPT !.issued = Some(p_task.idx)]
    /\ p_task' = IF p_task.idx + 1 < Len(p_inputs)
                 THEN [p_task EXCEPT !.pc = "check", !.idx = @ + 1]
                 ELSE [p_task EXCEPT !.pc = "after_for"]
    /\ UNCHANGED <<p_inputs, p_ctl, p_stop, p_status, codecVars, reducerVars, recorderVars, appVars, parserVars>>

\* after the for loop: a pause of its duration when the last action is a Swipe
PlayerAfterFor ==
    /\ p_task.pc = "after_for"
    /\ p_task' = IF p_inputs /= <<>> /\ p_inputs[Len(p_inputs)].input.kind = "Swipe"
                 THEN [p_task EXCEPT !.pc = "swipe_pause",
                          !.sleep = Some(p_inputs[Len(p_inputs)].input.milliseconds)]
                 ELSE [p_task EXCEPT !.pc = "end_of_loop"]
    /\ UNCHANGED <<p_inputs, p_ctl, p_stop, p_status, p_obs, codecVars, reducerVars, recorderVars, appVars, parserVars>>

PlayerSwipePauseEnds ==
    /\ p_task.pc = "swipe_pause"
    /\ p_task' = [p_task EXCEPT !.pc = "end_of_loop", !.sleep = None]
    /\ UNCHANGED <<p_inputs, p_ctl, p_stop, p_status, p_obs, codecVars, reducerVars, recorderVars, appVars, parserVars>>

\* status_send.send(Repeating { repetion, None }), then the sleep between loops
PlayerEndOfLoop ==
    /\ p_task.pc = "end_of_loop"
    /\ p_status' = Publish(Repeating(p_task.repetion, None))
    /\ p_task' = [p_task EXCEPT !.pc = "loop_delay", !.sleep = Some(DelayMsBetweenLoops)]
    /\ UNCHANGED <<p_inputs, p_ctl, p_stop, p_obs, codecVars, reducerVars, recorderVars, appVars, parserVars>>

\* the sleep between loops ends; repetion += 1
PlayerLoopDelayEnds ==
    /\ p_task.pc = "loop_delay"
    /\ p_task' = [p_task EXCEPT
                    !.pc = "loop_head", !.sleep = None,
                    !.repetion = IF @ < MaxRepetion THEN @ + 1 ELSE @]
    /\ UNCHANGED <<p_inputs, p_ctl, p_stop, p_status, p_obs, codecVars, reducerVars, recorderVars, appVars, parserVars>>

\* after 'main_loop: status_send.send(Finished); the task ends
PlayerFinish ==
    /\ p_task.pc = "finish"
    /\ p_status' = Publish(Finished)
    /\ p_task' = [p_task EXCEPT !.pc = "done"]
    /\ UNCHANGED <<p_inputs, p_ctl, p_stop, p_obs, codecVars, reducerVars, recorderVars, appVars, parserVars>>

PlayerTask ==
    \/ PlayerLoopHead
    \/ PlayerCheck
    \/ PlayerWake
    \/ PlayerPublish
    \/ PlayerIssue
    \/ PlayerAfterFor
    \/ PlayerSwipePauseEnds
    \/ PlayerEndOfLoop
    \/ PlayerLoopDelayEnds
    \/ PlayerFinish

PlayerNext == PlayerStop \/ PlayerDrop \/ PlayerTask

SpecPlayer == PlayerInit /\ [][PlayerNext]_vars

\* the runtime keeps running the task, and every sleep ends
SpecPlayerFair == SpecPlayer /\ WF_vars(PlayerTask)

(* ----------- the recording controller (input_event_recorder.rs) -------- *)
TapThresholdDistance == 100
TapThresholdMs == 500

RecordedInput(input) == [msg |-> "RecordedInput", input |-> input]
RecordingFinished == [msg |-> "RecordingFinished"]

\* the seconds field as getevent -t prints it: "%8ld.%06ld"
FmtSeconds(ms) ==
    PadLeft(ToDec(ms \div 1000), 8) \o <<".">>
    \o SubSeq(<<"0", "0">>, 1, 3 - Len(ToDec(ms % 1000))) \o ToDec(ms % 1000)
    \o <<"0", "0", "0">>

StrEventPath == <<"/">> \o StrDev \o <<"/">> \o StrInput \o <<"/">> \o StrEvent \o <<"3">>

\* an event line of the capture process at capture time ms
EventLine(ms, ev_type, ev_sub_type, ev_value) ==
    <<"[">> \o FmtSeconds(ms) \o <<"]", " ">> \o StrEventPath \o <<":", " ">>
    \o PadRight(ev_type, 12) \o <<" ">> \o PadRight(ev_sub_type, 20) \o <<" ">>
    \o ev_value \o <<"\n">>

StrEvKey == <<"E", "V", "_", "K", "E", "Y">>
StrEvSyn == <<"E", "V", "_", "S", "Y", "N">>
StrSynReport == <<"S", "Y", "N", "_", "R", "E", "P", "O", "R", "T">>

CapturedEvents == {BtnTouch("Down"), BtnTouch("Up"), KeyPower("Down")}

\* the text of the line that reports a captured event
EventText(ms, ev) ==
    EventLine(ms, StrEvKey,
              IF ev.kind = "BtnTouch" THEN StrBtnTouch ELSE StrKeyPower,
              IF ev.t = "Down" THEN StrDown ELSE StrUp)

\* lines that report no event: a sync record (no event), a value that is no
\* touch type (a parse failure), a device line, and text of no known shape
NoiseLines(ms) ==
    { EventLine(ms, StrEvSyn, StrSynReport, <<"0", "0", "0", "0", "0", "0", "0", "0">>),
      EventLine(ms, StrEvKey, StrBtnTouch, <<"S", "I", "D", "E">>),
      StrAdd \o <<" ">> \o StrDevice \o <<" ", "2", ":", " ">> \o StrEventPath \o <<"\n">>,
      <<"?", "?", "\n">> }

\* the lines the capture process may print next, each with the event it
\* reports, if any
CaptureLines(ms) ==
    {[text |-> EventText(ms, ev), event |-> Some(InputEventInfo(ms, 3, ev))] :
        ev \in CapturedEvents}
    \cup {[text |-> t, event |-> None] : t \in NoiseLines(ms)}

\* InputRecorder::new: the channels are created, the task is spawned
RecorderInit ==
    /\ rec_ctl = [process_kill_send |-> TRUE, result_recv |-> TRUE,
                  rx_inner |-> TRUE, dropped |-> FALSE]
    /\ rec_kill = "empty"
    /\ rec_result = [state |-> "empty"]
    /\ rec_status = <<>>
    /\ rec_task = [pc |-> "spawn", child |-> "none", reader |-> "none",
                   err_reader |-> "none", inputs |-> <<>>, lines |-> 0]
    /\ rec_ret = [call |-> "none"]
    /\ rec_obs = [call |-> "none", signals |-> 0, stops |-> 0, got |-> FALSE, published |-> 0,
                  printed |-> <<>>]
    /\ CodecIdle
    /\ ReducerIdle
    /\ PlayerAbsent
    /\ AppIdle
    /\ ParserIdle

RecorderIsRunning == rec_ctl.process_kill_send

\* the task still holds the receiving end of the kill channel
KillReceiverAlive == rec_task.pc \in {"spawn", "await_terminate"}

\* a mutant of KillSendAfterStop: stop() leaves the sender in place
KillSendKept(process_kill_send) == process_kill_send

\* process_kill_send after `self.process_kill_send.take()`
KillSendAfterStop(process_kill_send) == FALSE

\* the body of InputRecorder::stop
RecorderStopBody(call) ==
    /\ rec_ctl' = [rec_ctl EXCEPT !.process_kill_send = KillSendAfterStop(@),
                                  !.dropped = (@ \/ call = "drop")]
    /\ rec_kill' = IF rec_ctl.process_kill_send /\ KillReceiverAlive /\ rec_kill = "empty"
                   THEN "sent" ELSE rec_kill
    /\ rec_obs' = [rec_obs EXCEPT !.call = call,
                                  !.stops = IF @ < MaxStopCalls THEN @ + 1 ELSE @,
                                  !.signals = IF rec_ctl.process_kill_send THEN @ + 1 ELSE @]
    /\ UNCHANGED <<rec_result, rec_status, rec_task, rec_ret,
                   codecVars, reducerVars, playerVars, appVars, parserVars>>

\* the owner calls stop()
RecStop ==
    /\ rec_task.pc /= "absent"
    /\ ~rec_ctl.dropped
    /\ RecorderStopBody("stop")

\* the owner drops the InputRecorder: Drop calls stop()
RecDrop ==
    /\ rec_task.pc /= "absent"
    /\ ~rec_ctl.dropped
    /\ RecorderStopBody("drop")

\* every sender of the status channel is gone
StatusSendersGone == rec_task.pc \in {"done", "panicked"} /\ rec_task.reader /= "reading"

\* InputRecorder::read_next_status
RecReadNextStatus ==
    /\ rec_task.pc /= "absent"
    /\ ~rec_ctl.dropped
    /\ IF rec_status /= <<>>
       THEN /\ rec_ret' = [call |-> "read_next_status", ret |-> "Ok", val |-> Head(rec_status)]
            /\ rec_status' = Tail(rec_status)
       ELSE /\ rec_ret' = [call |-> "read_next_status",
                           ret |-> IF StatusSendersGone THEN "Finished" ELSE "Empty"]
            /\ UNCHANGED rec_status
    /\ rec_obs' = [rec_obs EXCEPT !.call = "read_next_status"]
    /\ UNCHANGED <<rec_ctl, rec_kill, rec_result, rec_task,
                   codecVars, reducerVars, playerVars, appVars, parserVars>>

\* oneshot::Receiver::try_recv as try_get_result uses it: Empty keeps the
\* receiver; a value, or Closed, leaves it without its channel
TryRecv(rx_inner, result) ==
    IF ~rx_inner THEN [ret |-> "Closed", rx_inner |-> FALSE, result |-> result]
    ELSE IF result.state = "ready"
         THEN [ret |-> "Ok", val |-> result.val, rx_inner |-> FALSE,
               result |-> [state |-> "taken"]]
    ELSE IF result.state = "closed"
         THEN [ret |-> "Closed", rx_inner |-> FALSE, result |-> result]
    ELSE [ret |-> "Empty", rx_inner |-> TRUE, result |-> result]

\* InputRecorder::try_get_result
TryGetResult(ctl, result) ==
    IF ctl.result_recv
    THEN LET res == TryRecv(ctl.rx_inner, result) IN
         [ctl |-> [ctl EXCEPT !.rx_inner = res.rx_inner],
          result |-> res.result,
          ret |-> CASE res.ret = "Empty"  -> [call |-> "try_get_result", ret |-> "NotYetAvailable"]
                    [] res.ret = "Closed" -> [call |-> "try_get_result", ret |-> "InternalError"]
                    [] res.ret = "Ok" ->
                         IF res.val.some
                         THEN [call |-> "try_get_result", ret |-> "Ok", val |-> res.val.val]
                         ELSE [call |-> "try_get_result", ret |-> "InternalError"]]
    ELSE [ctl |-> ctl, result |-> result,
          ret |-> [call |-> "try_get_result", ret |-> "AlreadyReceived"]]

RecTryGetResult ==
    /\ rec_task.pc /= "absent"
    /\ ~rec_ctl.dropped
    /\ LET r == TryGetResult(rec_ctl, rec_result) IN
          /\ rec_ctl' = r.ctl
          /\ rec_result' = r.result
          /\ rec_ret' = r.ret
          /\ rec_obs' = [rec_obs EXCEPT !.call = "try_get_result",
                                        !.got = (@ \/ r.ret.ret = "Ok")]
    /\ UNCHANGED <<rec_kill, rec_status, rec_task, codecVars, reducerVars, playerVars, appVars, parserVars>>

\* start: Command::new("adb.exe") ... .spawn() succeeds; both readers are spawned
RecStart ==
    /\ rec_task.pc = "spawn"
    /\ rec_task' = [rec_task EXCEPT !.pc = "await_terminate", !.child = "running",
                                    !.reader = "reading", !.err_reader = "reading"]
    /\ UNCHANGED <<rec_ctl, rec_kill, rec_result, rec_status, rec_ret, rec_obs,
                   codecVars, reducerVars, playerVars, appVars, parserVars>>

\* start: .spawn().expect("adb must be installed") panics; the task's ends of
\* the three channels are dropped
RecSpawnPanics ==
    /\ rec_task.pc = "spawn"
    /\ rec_task' = [rec_task EXCEPT !.pc = "panicked"]
    /\ rec_result' = [state |-> "closed"]
    /\ UNCHANGED <<rec_ctl, rec_kill, rec_status, rec_ret, rec_obs,
                   codecVars, reducerVars, playerVars, appVars, parserVars>>

\* the capture process ends on its own
RecChildExits ==
    /\ rec_task.child = "running"
    /\ rec_task' = [rec_task EXCEPT !.child = "exited"]
    /\ UNCHANGED <<rec_ctl, rec_kill, rec_result, rec_status, rec_ret, rec_obs,
                   codecVars, reducerVars, playerVars, appVars, parserVars>>

\* record_inputs_output: one line is read (the pipe may still hold lines after
\* the process has ended); an Input is pushed and published
RecReadLine ==
    /\ rec_task.reader = "reading"
    /\ rec_task.lines < MaxLines
    /\ \E line \in CaptureLines(100 * (rec_task.lines + 1)) :
          LET maybe_parsed == OkFlatten(TryFromStr(line.text)) IN
          IF maybe_parsed.some /\ maybe_parsed.val.kind = "Input"
          THEN /\ rec_task' = [rec_task EXCEPT
                                 !.lines = @ + 1,
                                 !.inputs = Append(@, maybe_parsed.val.input),
                                 !.reader = IF rec_ctl.dropped THEN "ok" ELSE @]
               /\ rec_status' = IF rec_ctl.dropped THEN rec_status
                                ELSE Append(rec_status, RecordedInput(maybe_parsed.val.input))
               /\ rec_obs' = [rec_obs EXCEPT
                                !.printed = Append(@, line.event),
                                !.published = IF rec_ctl.dropped THEN @ ELSE @ + 1]
          ELSE /\ rec_task' = [rec_task EXCEPT !.lines = @ + 1]
               /\ rec_obs' = [rec_obs EXCEPT !.printed = Append(@, line.event)]
               /\ UNCHANGED rec_status
    /\ UNCHANGED <<rec_ctl, rec_kill, rec_result, rec_ret, codecVars, reducerVars, playerVars, appVars, parserVars>>

\* record_inputs_output: read_line returns 0 bytes once the process has ended
RecReadEof ==
    /\ rec_task.reader = "reading"
    /\ rec_task.child = "exited"
    /\ rec_task' = [rec_task EXCEPT !.reader = "ok"]
    /\ UNCHANGED <<rec_ctl, rec_kill, rec_result, rec_status, rec_ret, rec_obs,
                   codecVars, reducerVars, playerVars, appVars, parserVars>>

\* record_inputs_output: read_line fails; the function returns ProcessAborted
RecReadFails ==
    /\ rec_task.reader = "reading"
    /\ rec_task.lines < MaxLines
    /\ rec_task' = [rec_task EXCEPT !.reader = "err", !.lines = @ + 1]
    /\ UNCHANGED <<rec_ctl, rec_kill, rec_result, rec_status, rec_ret, rec_obs,
                   codecVars, reducerVars, playerVars, appVars, parserVars>>

\* the stderr reader ends: end of stream once the process has ended
RecErrReaderEnds ==
    /\ rec_task.err_reader = "reading"
    /\ rec_task.child = "exited"
    /\ rec_task' = [rec_task EXCEPT !.err_reader = "done"]
    /\ UNCHANGED <<rec_ctl, rec_kill, rec_result, rec_status, rec_ret, rec_obs,
                   codecVars, reducerVars, playerVars, appVars, parserVars>>

\* a mutant of TerminateReturns: the task does not wait for the kill signal
TerminateReturnsAtOnce(kill) == TRUE

\* `terminate.await` is ready once the kill signal was sent (the sender is
\* never dropped unsent: Drop calls stop(), which sends)
TerminateReturns(kill) == kill = "sent"

\* start: terminate.await returns
RecTerminated ==
    /\ rec_task.pc = "await_terminate"
    /\ TerminateReturns(rec_kill)
    /\ rec_kill' = "received"
    /\ rec_task' = [rec_task EXCEPT !.pc = "kill"]
    /\ UNCHANGED <<rec_ctl, rec_result, rec_status, rec_ret, rec_obs,
                   codecVars, reducerVars, playerVars, appVars, parserVars>>

\* start: child.kill().await
RecKillChild ==
    /\ rec_task.pc = "kill"
    /\ rec_task' = [rec_task EXCEPT !.pc = "join_err", !.child = "exited"]
    /\ UNCHANGED <<rec_ctl, rec_kill, rec_result, rec_status, rec_ret, rec_obs,
                   codecVars, reducerVars, playerVars, appVars, parserVars>>

\* start: join_handle_read_err.await returns
RecJoinErr ==
    /\ rec_task.pc = "join_err"
    /\ rec_task.err_reader = "done"
    /\ rec_task' = [rec_task EXCEPT !.pc = "join_input"]
    /\ UNCHANGED <<rec_ctl, rec_kill, rec_result, rec_status, rec_ret, rec_obs,
                   codecVars, reducerVars, playerVars, appVars, parserVars>>

\* a mutant of JoinedInput: the result is sent without joining the reader
JoinedInputNotAwaited(reader) == TRUE

\* join_handle_read_input.await returns once record_inputs_output has returned
JoinedInput(reader) == reader \in {"ok", "err"}

\* a mutant of ResultSend: the result never reaches the channel
ResultSendLost(result, inputs) == result

\* result_send.send(inputs) with the receiver alive
ResultSend(result, inputs) == [state |-> "ready", val |-> inputs]

\* start: the reader is joined, its events are reduced, the result is sent
RecSendResult ==
    /\ rec_task.pc = "join_input"
    /\ JoinedInput(rec_task.reader)
    /\ LET inputs == IF rec_task.reader = "ok"
                     THEN Some(ConvertEventsToInput(rec_task.inputs,
                                   TapThresholdDistance, TapThresholdMs))
                     ELSE None
       IN  rec_result' = IF rec_ctl.dropped THEN rec_result
                         ELSE ResultSend(rec_result, inputs)
    /\ rec_task' = [rec_task EXCEPT !.pc = "send_finished"]
    /\ UNCHANGED <<rec_ctl, rec_kill, rec_status, rec_ret, rec_obs,
                   codecVars, reducerVars, playerVars, appVars, parserVars>>

\* start: status_send.send(RecordingFinished); the task ends
RecSendFinished ==
    /\ rec_task.pc = "send_finished"
    /\ rec_status' = IF rec_ctl.dropped THEN rec_status
                     ELSE Append(rec_status, RecordingFinished)
    /\ rec_task' = [rec_task EXCEPT !.pc = "done"]
    /\ UNCHANGED <<rec_ctl, rec_kill, rec_result, rec_ret, rec_obs,
                   codecVars, reducerVars, playerVars, appVars, parserVars>>

RecorderTask ==
    \/ RecStart
    \/ RecSpawnPanics
    \/ RecChildExits
    \/ RecReadLine
    \/ RecReadEof
    \/ RecReadFails
    \/ RecErrReaderEnds
    \/ RecTerminated
    \/ RecKillChild
    \/ RecJoinErr
    \/ RecSendResult
    \/ RecSendFinished

RecorderNext == RecStop \/ RecDrop \/ RecReadNextStatus \/ RecTryGetResult \/ RecorderTask

SpecRecorder == RecorderInit /\ [][RecorderNext]_vars

\* either controller was constructed
SpecControllers ==
    (RecorderInit \/ PlayerInit) /\ [][RecorderNext \/ PlayerNext]_vars

\* the runtime keeps running both tasks, every sleep ends, the capture
\* process ends when killed and its streams end with it
SpecControllersFair == SpecControllers /\ WF_vars(PlayerTask) /\ WF_vars(RecorderTask)

(* ---------------------- the application (app.rs) ------------------------ *)
\* how many orphaned playback tasks, and how many recordings, are followed
MaxOldPlayers == 1
MaxRecordings == 1

\* AirApp::record_task and AirApp::play_task are Some. The recorder variables
\* hold the recorder of record_task; the player variables hold the player
\* made last, which play_task holds until it is stopped and dropped.
AppRecordTask == rec_task.pc /= "absent"
AppPlayTask == p_task.pc /= "absent" /\ ~p_ctl.dropped

\* a playback task that has ended is no longer a task
PlayerTaskEnded(task) == task.pc \in {"absent", "done", "panicked"}

\* what the user does in one frame: nothing, or a click on one button
Clicks == {"none", "Start Recording", "Stop Recording", "Play Recording", "Stop Playing"}

\* the button that is clicked is on the screen
ClickShown(click) ==
    CASE click = "Start Recording" -> ~AppRecordTask /\ a_recordings < MaxRecordings
      [] click = "Stop Recording" -> AppRecordTask /\ RecorderIsRunning
      [] click = "Play Recording" ->
             /\ ~AppPlayTask /\ a_input.some
             /\ PlayerTaskEnded(p_task) \/ Len(a_old_players) < MaxOldPlayers
      [] click = "Stop Playing" -> AppPlayTask /\ PlayerIsRunning
      [] OTHER -> TRUE

\* AirApp::handle_recording: the status messages are drained; a running
\* recorder offers "Stop Recording", a stopped one is asked for its result
HandleRecording(click) ==
    IF RecorderIsRunning
    THEN [ret |-> "OkNone",
          ctl |-> IF click = "Stop Recording"
                  THEN [rec_ctl EXCEPT !.process_kill_send = KillSendAfterStop(@)]
                  ELSE rec_ctl,
          kill |-> IF click = "Stop Recording" /\ KillReceiverAlive /\ rec_kill = "empty"
                   THEN "sent" ELSE rec_kill,
          result |-> rec_result,
          last |-> [call |-> "read_next_status",
                    ret |-> IF StatusSendersGone THEN "Finished" ELSE "Empty"]]
    ELSE LET r == TryGetResult(rec_ctl, rec_result) IN
         [ret |-> CASE r.ret.ret = "NotYetAvailable" -> "OkNone"
                    [] r.ret.ret = "Ok" -> "OkSome"
                    [] OTHER -> "Err",
          ctl |-> r.ctl, kill |-> rec_kill, result |-> r.result, last |-> r.ret]

\* a task that has ended is no longer a task
RecorderTaskEnded(task) == task.pc \in {"done", "panicked"} /\ task.reader /= "reading"

\* the recorder is gone from the application: record_task = None drops the
\* InputRecorder; its task, if it has not ended, goes on without a controller
RecordTaskCleared ==
    /\ rec_ctl' = [process_kill_send |-> FALSE, result_recv |-> FALSE,
                   rx_inner |-> FALSE, dropped |-> TRUE]
    /\ rec_kill' = "empty"
    /\ rec_result' = [state |-> "empty"]
    /\ rec_status' = <<>>
    /\ rec_task' = [pc |-> "absent", child |-> "none", reader |-> "none",
                    err_reader |-> "none", inputs |-> <<>>, lines |-> 0]
    /\ rec_ret' = [call |-> "none"]
    /\ rec_obs' = [call |-> "none", signals |-> 0, stops |-> 0, got |-> FALSE,
                   published |-> 0, printed |-> <<>>]
    /\ a_old_recorders' = IF RecorderTaskEnded(rec_task) THEN a_old_recorders
                          ELSE Append(a_old_recorders, [rec_task EXCEPT !.inputs = <<>>])

\* draw_main, the recording part
DrawRecording(click) ==
    IF AppRecordTask
    THEN LET h == HandleRecording(click) IN
         CASE h.ret = "OkNone" ->
                /\ rec_ctl' = h.ctl
                /\ rec_kill' = h.kill
                /\ rec_result' = h.result
                /\ rec_status' = <<>>
                /\ rec_ret' = h.last
                /\ rec_obs' = [rec_obs EXCEPT
                     !.call = IF click = "Stop Recording" THEN "stop" ELSE h.last.call,
                     !.stops = IF click = "Stop Recording" /\ @ < MaxStopCalls
                               THEN @ + 1 ELSE @,
                     !.signals = IF click = "Stop Recording" THEN @ + 1 ELSE @]
                /\ UNCHANGED <<rec_task, a_input, a_recordings, a_old_recorders>>
           [] h.ret = "OkSome" ->
                /\ a_input' = Some(h.last.val)
                /\ RecordTaskCleared
                /\ UNCHANGED a_recordings
           [] h.ret = "Err" ->
                /\ RecordTaskCleared
                /\ UNCHANGED <<a_input, a_recordings>>
    ELSE IF click = "Start Recording"
    THEN /\ rec_ctl' = [process_kill_send |-> TRUE, result_recv |-> TRUE,
                        rx_inner |-> TRUE, dropped |-> FALSE]
         /\ rec_kill' = "empty"
         /\ rec_result' = [state |-> "empty"]
         /\ rec_status' = <<>>
         /\ rec_task' = [pc |-> "spawn", child |-> "none", reader |-> "none",
                         err_reader |-> "none", inputs |-> <<>>, lines |-> 0]
         /\ rec_ret' = [call |-> "none"]
         /\ rec_obs' = [call |-> "none", signals |-> 0, stops |-> 0, got |-> FALSE,
                        published |-> 0, printed |-> <<>>]
         /\ a_input' = None
         /\ a_recordings' = a_recordings + 1
         /\ UNCHANGED a_old_recorders
    ELSE UNCHANGED <<recorderVars, a_input, a_recordings, a_old_recorders>>

\* a playback task without its controller
OldPlayer(inputs, stop, task) == [inputs |-> inputs, stop |-> stop, task |-> task]

\* draw_main, the playback part; input is AirApp::input as the recording part
\* has left it. "Stop Playing": player.stop(), then play_task = None drops
\* the InputPlayer (Drop calls stop() once more). "Play Recording": a new
\* InputPlayer; the task of the one before, if it has not ended, goes on.
DrawPlayback(click, input) ==
    IF AppPlayTask
    THEN IF PlayerIsRunning /\ click = "Stop Playing"
         THEN /\ p_ctl' = [stop_send |-> StopSendAfterStop(p_ctl.stop_send),
                           dropped |-> TRUE]
              /\ p_stop' = IF p_stop = "empty" THEN "sent" ELSE p_stop
              /\ p_obs' = [p_obs EXCEPT
                             !.call = "drop",
                             !.stops = IF @ + 2 <= MaxStopCalls THEN @ + 2 ELSE MaxStopCalls,
                             !.signals = @ + 1,
                             !.stop_at = Some([pc |-> p_task.pc, idx |-> p_task.idx,
                                               repetion |-> p_task.repetion])]
              /\ UNCHANGED <<p_inputs, p_status, p_task, a_old_players>>
         ELSE UNCHANGED <<playerVars, a_old_players>>
    ELSE IF input.some /\ click = "Play Recording"
    THEN /\ p_inputs' = input.val
         /\ p_ctl' = [stop_send |-> TRUE, dropped |-> FALSE]
         /\ p_stop' = "empty"
         /\ p_status' = NotStarted
         /\ p_task' = [pc |-> "loop_head", repetion |-> 0, idx |-> 0,
                       last_millis |-> 0, sleep |-> None]
         /\ p_obs' = [call |-> "none", signals |-> 0, stops |-> 0,
                      stop_at |-> None, issued |-> None]
         /\ a_old_players' = IF PlayerTaskEnded(p_task) THEN a_old_players
                             ELSE Append(a_old_players, OldPlayer(p_inputs, p_stop, p_task))
    ELSE UNCHANGED <<playerVars, a_old_players>>

\* one frame: AirApp::draw_main
AppDrawMain(click) ==
    /\ ClickShown(click)
    /\ DrawRecording(click)
    /\ DrawPlayback(click, a_input')
    /\ UNCHANGED <<codecVars, reducerVars, parserVars>>

\* one step of a playback task whose InputPlayer is gone: the task of
\* InputPlayer::new, its status messages reaching nobody
OldPlayerStep(o) ==
    LET t == o.task
        inputs == o.inputs
    IN  CASE t.pc = "loop_head" ->
               [o EXCEPT !.task = [t EXCEPT
                   !.pc = IF inputs = <<>> THEN "after_for" ELSE "check",
                   !.idx = 0, !.last_millis = 0]]
          [] t.pc = "check" ->
               LET input == inputs[t.idx + 1]
                   diff == U32Sub(input.timestamp_milliseconds, t.last_millis)
               IN  IF StopObserved(o.stop)
                   THEN [o EXCEPT !.task = [t EXCEPT !.pc = "finish"],
                                  !.stop = IF @ = "sent" THEN "received" ELSE @]
                   ELSE [o EXCEPT !.task = [t EXCEPT
                            !.pc = IF U32Gt(diff, 0) THEN "sleep" ELSE "publish",
                            !.last_millis = input.timestamp_milliseconds,
                            !.sleep = IF U32Gt(diff, 0) THEN Some(diff) ELSE None]]
          [] t.pc = "sleep" -> [o EXCEPT !.task = [t EXCEPT !.pc = "publish", !.sleep = None]]
          [] t.pc = "publish" -> [o EXCEPT !.task = [t EXCEPT !.pc = "issue"]]
          [] t.pc = "issue" ->
               [o EXCEPT !.task = IF t.idx + 1 < Len(inputs)
                                  THEN [t EXCEPT !.pc = "check", !.idx = @ + 1]
                                  ELSE [t EXCEPT !.pc = "after_for"]]
          [] t.pc = "after_for" ->
               [o EXCEPT !.task =
                   IF inputs /= <<>> /\ inputs[Len(inputs)].input.kind = "Swipe"
                   THEN [t EXCEPT !.pc = "swipe_pause",
                            !.sleep = Some(inputs[Len(inputs)].input.milliseconds)]
                   ELSE [t EXCEPT !.pc = "end_of_loop"]]
          [] t.pc = "swipe_pause" ->
               [o EXCEPT !.task = [t EXCEPT !.pc = "end_of_loop", !.sleep = None]]
          [] t.pc = "end_of_loop" ->
               [o EXCEPT !.task = [t EXCEPT !.pc = "loop_delay",
                                            !.sleep = Some(DelayMsBetweenLoops)]]
          [] t.pc = "loop_delay" ->
               [o EXCEPT !.task = [t EXCEPT
                   !.pc = "loop_head", !.sleep = None,
                   !.repetion = IF @ < MaxRepetion THEN @ + 1 ELSE @]]
          [] t.pc = "finish" -> [o EXCEPT !.task = [t EXCEPT !.pc = "done"]]
          [] OTHER -> o

\* the elements of a sequence without the one at position i
RemoveAt(seq, i) == SubSeq(seq, 1, i - 1) \o SubSeq(seq, i + 1, Len(seq))

\* an orphaned playback task takes a step; once ended it is no task
AppOldPlayerStep ==
    /\ \E i \in 1..Len(a_old_players) :
          LET o == a_old_players[i]
              n == OldPlayerStep(o)
          IN  \/ a_old_players' = IF n.task.pc = "done" THEN RemoveAt(a_old_players, i)
                                  ELSE [a_old_players EXCEPT ![i] = n]
              \/ /\ o.task.pc = "check" /\ ~StopObserved(o.stop)
                 /\ PlayerUnderflows(o.inputs, o.task)
                 /\ a_old_players' = RemoveAt(a_old_players, i)
    /\ UNCHANGED <<a_input, a_recordings, a_old_recorders,
                   codecVars, reducerVars, playerVars, recorderVars, parserVars>>

\* an orphaned recording task takes its last step: status_send.send(
\* RecordingFinished) reaches nobody, the task ends
AppOldRecorderStep ==
    /\ \E i \in 1..Len(a_old_recorders) :
          /\ a_old_recorders[i].pc = "send_finished"
          /\ a_old_recorders' = RemoveAt(a_old_recorders, i)
    /\ UNCHANGED <<a_input, a_recordings, a_old_players,
                   codecVars, reducerVars, playerVars, recorderVars, parserVars>>

\* AirApp::default(), or the application once a recording has been made and
\* its result retrieved: input is Some, record_task and play_task are None
AppInit ==
    /\ \/ a_input = None /\ a_recordings = 0
       \/ a_input \in {Some(inputs) : inputs \in PlayerInputs} /\ a_recordings = MaxRecordings
    /\ a_old_players = <<>>
    /\ a_old_recorders = <<>>
    /\ ParserIdle
    /\ CodecIdle
    /\ ReducerIdle
    /\ PlayerAbsent
    /\ RecorderAbsent

AppNext ==
    \/ \E click \in Clicks : AppDrawMain(click)
    \/ RecorderTask
    \/ PlayerTask
    \/ AppOldPlayerStep
    \/ AppOldRecorderStep

SpecApp == AppInit /\ [][AppNext]_vars

(* --------------- playing what the reducer made of a capture ------------ *)
\* captures of up to MaxCapture events whose time stamps do not decrease
MaxCapture == 3
ReplayTimes == {100, 200, 300}
ReplayEvents == {BtnTouch("Down"), BtnTouch("Up"), KeyPower("Down"), AbsMtPosX(300)}

NonDecreasing(times) == \A k \in 1..(Len(times) - 1) : times[k] <= times[k + 1]

ReplayCaptures ==
    UNION { {[k \in 1..n |-> InputEventInfo(times[k], 3, events[k])] :
                times \in {t \in [1..n -> ReplayTimes] : NonDecreasing(t)},
                events \in [1..n -> ReplayEvents]} : n \in 1..MaxCapture }

\* what AirApp::input holds after a recording: the reducer's output
ReplayInputs ==
    {ConvertEventsToInput(capture, TapThresholdDistance, TapThresholdMs) :
        capture \in ReplayCaptures}

\* InputPlayer::new with the result of a recording
ReplayInit ==
    /\ p_inputs \in ReplayInputs
    /\ p_ctl = [stop_send |-> TRUE, dropped |-> FALSE]
    /\ p_stop = "empty"
    /\ p_status = NotStarted
    /\ p_task = [pc |-> "loop_head", repetion |-> 0, idx |-> 0, last_millis |-> 0, sleep |-> None]
    /\ p_obs = [call |-> "none", signals |-> 0, stops |-> 0, stop_at |-> None, issued |-> None]
    /\ CodecIdle
    /\ ReducerIdle
    /\ RecorderAbsent
    /\ AppIdle
    /\ ParserIdle

SpecReplay == ReplayInit /\ [][PlayerNext]_vars

(* ------------- specification of the capture line parser --------------- *)
\* capture times: whole seconds, milliseconds and the microseconds below them
CaptureSeconds == {0, 1, 31012, 4294967}
CaptureMillis == {0, 1, 295, 998}
CaptureMicros == {0, 121}
CaptureInstants ==
    {[s |-> s, ms |-> ms, us |-> us] :
        s \in CaptureSeconds, ms \in CaptureMillis, us \in CaptureMicros}

\* the second line of a capture is printed up to MaxGap milliseconds later
MaxGap == 2
LaterBy(t, d) ==
    [s |-> t.s + (t.ms + d) \div 1000, ms |-> (t.ms + d) % 1000, us |-> t.us]

\* the number of spaces between the opening bracket and the seconds field
BracketSpaces == {0, 1, 3}

StrEvAbs == <<"E", "V", "_", "A", "B", "S">>

\* event fields of a line with a recognised sub-type and a valid value
LineEvents ==
    { [ev_type |-> StrEvKey, ev_sub_type |-> StrBtnTouch, ev_value |-> StrDown,
       event |-> BtnTouch("Down")],
      [ev_type |-> StrEvKey, ev_sub_type |-> StrKeyPower, ev_value |-> StrUp,
       event |-> KeyPower("Up")],
      [ev_type |-> StrEvAbs, ev_sub_type |-> StrAbsMtPositionX,
       ev_value |-> <<"0", "0", "0", "0", "0", "2", "1", "c">>,
       event |-> AbsMtPosX(540)] }

\* the seconds field: whole seconds, a point, six digits
FmtInstant(t) ==
    ToDec(t.s) \o <<".">>
    \o SubSeq(<<"0", "0">>, 1, 3 - Len(ToDec(t.ms))) \o ToDec(t.ms)
    \o SubSeq(<<"0", "0">>, 1, 3 - Len(ToDec(t.us))) \o ToDec(t.us)

\* '[<seconds>] /dev/input/event3: <EV_TYPE> <EV_SUBTYPE> <value>'
InstantLine(t, spaces, ev) ==
    <<"[">> \o Spaces(spaces) \o FmtInstant(t) \o <<"]", " ">> \o StrEventPath
    \o <<":", " ">> \o PadRight(ev.ev_type, 12) \o <<" ">>
    \o PadRight(ev.ev_sub_type, 20) \o <<" ">> \o ev.ev_value \o <<"\n">>

CapturedLine(t, spaces, ev) ==
    [time |-> t, event |-> ev.event, text |-> InstantLine(t, spaces, ev)]

\* two event lines of one capture, the second up to MaxGap milliseconds later
ParserInit ==
    /\ \E t \in CaptureInstants, d \in 0..MaxGap, spaces \in BracketSpaces,
          ev \in LineEvents :
          e_capture = <<CapturedLine(t, spaces, ev), CapturedLine(LaterBy(t, d), spaces, ev)>>
    /\ e_parsed = <<>>
    /\ CodecIdle
    /\ ReducerIdle
    /\ PlayerAbsent
    /\ RecorderAbsent
    /\ AppIdle

\* record_inputs_output hands the next line to try_from_str
ParseNextLine ==
    /\ Len(e_parsed) < Len(e_capture)
    /\ e_parsed' = Append(e_parsed, TryFromStr(e_capture[Len(e_parsed) + 1].text))
    /\ UNCHANGED <<e_capture, codecVars, reducerVars, playerVars, recorderVars, appVars>>

SpecParser == ParserInit /\ [][ParseNextLine]_vars

(* ------------------- what the last loop iteration did ------------------ *)
RelativeTime == r_event.val.timestamp_milliseconds - r_first.val
LastResult == r_st.result[Len(r_st.result)]
\* the last iteration took a touch transition t while slot 0 was active
\* (a touch event leaves is_slot_0_active as it was)
TookTouch(t) ==
    /\ r_event.some
    /\ r_event.val.event.kind = "BtnTouch"
    /\ r_event.val.event.t = t
    /\ r_st.is_slot_0_active
\* the last iteration closed a pending down by an up
ClosedDown == TookTouch("Up") /\ r_down_was.some
\* the last iteration took a position event while a non-zero slot was active
\* (a position event leaves is_slot_0_active as it was)
TookForeignPosition ==
    /\ r_event.some
    /\ r_event.val.event.kind \in {"AbsMtPosX", "AbsMtPosY"}
    /\ ~r_st.is_slot_0_active

(* -------------------------------- C2 ----------------------------------- *)
\* C2: try_get_result returns NotYetAvailable while the task has not yet sent
\* the result, returns the action sequence on the first call after it is
\* ready, and every call made after a successful retrieval returns
\* AlreadyReceived.
C2_OneShotResult ==
    [][RecTryGetResult =>
         /\ (rec_result.state = "empty" /\ ~rec_obs.got) =>
                rec_ret'.ret = "NotYetAvailable"
         /\ (rec_result.state = "ready" /\ rec_result.val.some) =>
                (rec_ret'.ret = "Ok" /\ rec_ret'.val = rec_result.val.val)
         /\ rec_obs.got => rec_ret'.ret = "AlreadyReceived"]_vars

(* -------------------------------- C9 ----------------------------------- *)
\* the task is past the point where it sends the result
ResultSent == rec_task.pc \in {"send_finished", "done"}

\* C9: the result is retrievable only after every RecordedInput of the
\* session has been put on the status channel: the reader has returned by
\* then, and no RecordedInput is published after the result is sent.
C9_ResultAfterNotifications ==
    /\ [](rec_result.state \in {"ready", "taken"} => rec_task.reader \in {"ok", "err"})
    /\ [][ResultSent => rec_obs'.published = rec_obs.published]_vars

\* the result is ready after a session that published RecordedInput
\* notifications, and the owner has it
C9_Witness ==
    /\ rec_obs.published >= 1
    /\ rec_obs.got
    /\ Len(rec_status) >= 1

(* -------------------------------- C10 ---------------------------------- *)
\* C10: on both controllers the first stop() sends exactly one stop signal and
\* makes is_running() false; every later call, the one made by Drop too,
\* sends nothing and changes no state, also when the task has ended.
C10_StopIdempotent ==
    [][ /\ (RecStop \/ RecDrop) =>
              /\ ~RecorderIsRunning'
              /\ rec_obs'.signals = 1
              /\ ~RecorderIsRunning =>
                    /\ rec_obs'.signals = rec_obs.signals
                    /\ UNCHANGED <<rec_kill, rec_result, rec_status, rec_task, rec_ret>>
                    /\ rec_ctl'.result_recv = rec_ctl.result_recv
                    /\ rec_ctl'.rx_inner = rec_ctl.rx_inner
        /\ (PlayerStop \/ PlayerDrop) =>
              /\ ~PlayerIsRunning'
              /\ p_obs'.signals = 1
              /\ ~PlayerIsRunning =>
                    /\ p_obs'.signals = p_obs.signals
                    /\ UNCHANGED <<p_inputs, p_stop, p_status, p_task>>
      ]_vars

\* a controller was stopped and then dropped after its task had ended
C10_Witness ==
    \/ /\ rec_obs.stops = 2
       /\ rec_obs.call = "drop"
       /\ rec_task.pc = "done"
    \/ /\ p_obs.stops = 2
       /\ p_obs.call = "drop"
       /\ p_task.pc = "done"

(* -------------------------------- C3 ----------------------------------- *)
\* stop() was first called while the task was in the sleep before an action
StoppedInSleep == p_obs.stop_at.some /\ p_obs.stop_at.val.pc = "sleep"

C4_StopIsAcknowledged ==
    (p_task.pc /= "absent" /\ ~p_ctl.stop_send) ~> (p_task.pc = "done")

(* -------------------------------- C5 ----------------------------------- *)
\* C5: the timestamps of the actions produced by the reducer are
\* non-decreasing in output order, for every event sequence whose capture
\* times do not decrease.
C5_TimestampsNonDecreasing ==
    \A k \in 1..(Len(r_st.result) - 1) :
        r_st.result[k].timestamp_milliseconds <= r_st.result[k + 1].timestamp_milliseconds

(* -------------------------------- C6 ----------------------------------- *)
\* C6 as stated: a touch-down on the primary slot while a down is pending
\* leaves the pending down unchanged (first down wins).
C6_FirstDownWins ==
    (TookTouch("Down") /\ r_down_was.some) => r_st.down = r_down_was

\* C6 as amended: a touch-down on the primary slot while a down is pending
\* replaces the pending down by the last position and the relative time of
\* the repeated down, and the action emitted at the next touch-up carries the
\* position and timestamp of the pending down it closes (the most recent one).
C6_LastDownWins ==
    /\ (TookTouch("Down") /\ r_down_was.some) =>
           r_st.down = Some(DownInput(r_st.last_x, r_st.last_y, RelativeTime))
    /\ ClosedDown =>
           /\ r_st.result /= <<>>
           /\ LastResult.timestamp_milliseconds = r_down_was.val.time
           /\ LastResult.input.kind \in {"Tap", "Swipe"}
           /\ LastResult.input.kind = "Tap" =>
                  (LastResult.input.x = r_down_was.val.x /\ LastResult.input.y = r_down_was.val.y)
           /\ LastResult.input.kind = "Swipe" =>
                  (LastResult.input.x0 = r_down_was.val.x /\ LastResult.input.y0 = r_down_was.val.y)

\* a repeated down, later and elsewhere than the pending one, replaced it
C6_Witness ==
    /\ TookTouch("Down")
    /\ r_down_was.some
    /\ r_down_was.val.time < RelativeTime
    /\ r_down_was.val.x /= r_st.last_x
    /\ r_st.down.val.time = RelativeTime
    /\ r_st.down.val.x = r_st.last_x

(* -------------------------------- C7 ----------------------------------- *)
DistanceMoved == AbsDiff(r_down_was.val.x, r_st.last_x) + AbsDiff(r_down_was.val.y, r_st.last_y)
DownDuration == RelativeTime - r_down_was.val.time

\* C7: on a touch-up that closes a pending down the emitted action is a Swipe
\* exactly when |dx|+|dy| > tap_threshold_distance or duration >
\* tap_threshold_ms, and a Tap otherwise.
C7_StrictThresholds ==
    ClosedDown =>
        /\ r_st.result /= <<>>
        /\ LastResult.input.kind \in {"Tap", "Swipe"}
        /\ LastResult.input.kind = "Swipe" <=>
               (DistanceMoved > r_thr.distance \/ DownDuration > r_thr.ms)

\* distance and duration both equal to their thresholds: a Tap
C7_Witness ==
    /\ ClosedDown
    /\ DistanceMoved = r_thr.distance
    /\ DownDuration = r_thr.ms
    /\ LastResult.input.kind = "Tap"

(* -------------------------------- C8 ----------------------------------- *)
\* C8: a position event taken while the most recent slot-index event named a
\* non-zero slot changes neither last_x nor last_y (nor the pending down).
C8_SlotIsolation ==
    [][(r_event'.some
        /\ r_event'.val.event.kind \in {"AbsMtPosX", "AbsMtPosY"}
        /\ ~r_st.is_slot_0_active)
       => (r_st'.last_x = r_st.last_x /\ r_st'.last_y = r_st.last_y
           /\ r_st'.down = r_st.down)]_vars

\* between a down and its up, an X position that differs from last_x arrived
\* on a non-zero slot
C8_Witness ==
    /\ TookForeignPosition
    /\ r_event.val.event.kind = "AbsMtPosX"
    /\ r_event.val.event.v /= r_st.last_x
    /\ r_st.down.some

(* -------------------------------- C1 ----------------------------------- *)
\* C1: reading back what serialize_inputs wrote for a non-empty sequence of
\* timed actions with non-decreasing timestamps yields the same sequence:
\* same length, same order, every kind and every integer field equal.
C1_RoundTrip ==
    (c_read.some /\ c_inputs /= <<>>) =>
        /\ c_read.val.ok
        /\ Len(c_read.val.val) = Len(c_inputs)
        /\ \A k \in 1..Len(c_inputs) : c_read.val.val[k] = c_inputs[k]

\* a two-action recording, with a field wider than its column, was read back
C1_Witness ==
    /\ c_read.some
    /\ Len(c_inputs) = 2
    /\ c_inputs[1].input.kind = "Tap"
    /\ c_inputs[1].input.x = 12345
    /\ c_inputs[2].input.kind = "Swipe"
    /\ c_inputs[2].timestamp_milliseconds = 1234567

(* -------------------------------- C11 ---------------------------------- *)
\* C11: if launching the capture command fails, no recording controller
\* exists afterwards: no InputRecorder with is_running() true is in the
\* caller's hands.
C11_LaunchFailureNoController ==
    rec_task.pc = "panicked" => (rec_ctl.dropped /\ ~RecorderIsRunning)

(* -------------------------------- C12 ---------------------------------- *)
\* the lines of a text, each with its newline
RECURSIVE TextLines(_)
TextLines(text) ==
    IF text = <<>> THEN <<>>
    ELSE <<ReadLine(text)>> \o TextLines(SubSeq(text, Len(ReadLine(text)) + 1, Len(text)))

HasBadLine(text) == \E k \in 1..Len(TextLines(text)) : TextLines(text)[k] \in ReadBadLines

\* C12: if any line of the text fails to parse, deser_inputs_fmt returns the
\* error and no sequence, whatever valid lines precede or follow it; a text
\* of valid lines only is read as one action per line.
C12_StrictRead ==
    c_read.some =>
        /\ HasBadLine(c_text.val) => c_read.val = Err
        /\ ~HasBadLine(c_text.val) =>
               (c_read.val.ok /\ Len(c_read.val.val) = Len(TextLines(c_text.val)))

\* a text whose bad line stands between two valid lines was read
C12_Witness ==
    /\ c_read.some
    /\ Len(TextLines(c_text.val)) = 3
    /\ TextLines(c_text.val)[1] \in ReadGoodLines
    /\ TextLines(c_text.val)[2] \in ReadBadLines
    /\ TextLines(c_text.val)[3] \in ReadGoodLines
    /\ c_read.val = Err

(* -------------------------------- C13 ---------------------------------- *)
\* the events reported by the lines printed so far, in order
RECURSIVE EventsOf(_)
EventsOf(printed) ==
    IF printed = <<>> THEN <<>>
    ELSE IF Head(printed).some THEN <<Head(printed).val>> \o EventsOf(Tail(printed))
    ELSE EventsOf(Tail(printed))

\* the step read a line that reports no event
ReadNoiseLine ==
    /\ Len(rec_obs'.printed) = Len(rec_obs.printed) + 1
    /\ ~rec_obs'.printed[Len(rec_obs'.printed)].some

TimestampDelta(k) ==
    p_inputs[k + 1].timestamp_milliseconds
    - (IF k = 0 THEN 0 ELSE p_inputs[k].timestamp_milliseconds)

LastIsSwipe == p_inputs /= <<>> /\ p_inputs[Len(p_inputs)].input.kind = "Swipe"

\* C14: in each loop the sleep before action k lasts timestamp(k) -
\* timestamp(k-1) (no sleep at all when that is 0) and is followed by action
\* k; after the last action a Swipe of duration D is followed by a pause of
\* D before the delay between loops, a Tap or Key by no pause.
C14_PlaybackTiming ==
    [][ /\ (p_task.pc = "check" /\ p_task'.pc \in {"sleep", "publish"}) =>
              /\ p_task'.idx = p_task.idx
              /\ IF TimestampDelta(p_task.idx) > 0
                 THEN p_task'.pc = "sleep" /\ p_task'.sleep = Some(TimestampDelta(p_task.idx))
                 ELSE p_task'.pc = "publish" /\ p_task'.sleep = None
        /\ (p_task.pc = "sleep" /\ p_task' /= p_task) =>
              (p_task'.pc = "publish" /\ p_task'.idx = p_task.idx)
        /\ (p_task.pc = "after_for" /\ p_task' /= p_task) =>
              IF LastIsSwipe
              THEN /\ p_task'.pc = "swipe_pause"
                   /\ p_task'.sleep = Some(p_inputs[Len(p_inputs)].input.milliseconds)
              ELSE p_task'.pc = "end_of_loop" /\ p_task'.sleep = None
        /\ (p_task.pc = "swipe_pause" /\ p_task' /= p_task) => p_task'.pc = "end_of_loop"
        /\ (p_task.pc = "end_of_loop" /\ p_task' /= p_task) =>
              (p_task'.pc = "loop_delay" /\ p_task'.sleep = Some(DelayMsBetweenLoops))
      ]_vars

\* in the second loop over actions at 0, 50 and 200 the task sleeps 150
\* before the last action
C14_Witness ==
    /\ Len(p_inputs) = 3
    /\ p_task.pc = "sleep"
    /\ p_task.repetion = 1
    /\ p_task.idx = 2
    /\ p_task.sleep = Some(150)
    /\ p_inputs[3].timestamp_milliseconds = 200
    /\ p_inputs[2].timestamp_milliseconds = 50

(* -------------------------------- C17 ---------------------------------- *)
\* C17: a power-key-down at absolute time T, the first event being at T0,
\* emits exactly one Key{Power} action with timestamp T - T0 and changes
\* nothing else, whatever slot is active and whether or not a touch is
\* pending; a power-key-up emits nothing.
C17_KeyEmission ==
    [][(r_event'.some /\ r_event'.val.event.kind = "KeyPower") =>
         IF r_event'.val.event.t = "Down"
         THEN r_st' = [r_st EXCEPT !.result =
                          Append(@, InputWithTimestamp(Key("Power"),
                                        r_event'.val.timestamp_milliseconds - r_first'.val))]
         ELSE r_st' = r_st]_vars

\* a power-key-down was taken after the first event, while another slot was
\* active and a touch was pending, and its action is the last one
C17_Witness ==
    /\ r_event.some
    /\ r_event.val.event = KeyPower("Down")
    /\ ~r_st.is_slot_0_active
    /\ r_st.down.some
    /\ RelativeTime = 1
    /\ r_st.result /= <<>>
    /\ LastResult = InputWithTimestamp(Key("Power"), 1)

(* -------------------------------- C18 ---------------------------------- *)
\* the loop after loop L (the model stops counting at MaxRepetion)
LoopAfter(L) == IF L < MaxRepetion THEN L + 1 ELSE L

\* the status that follows a status in the protocol over the actions of
\* p_inputs, as long as the playback goes on
StatusAfter(status) ==
    LET n == Len(p_inputs) IN
    IF status.state = "NotStarted"
    THEN Repeating(0, IF n = 0 THEN None ELSE Some(0))
    ELSE IF status.reptetion_element.some
    THEN IF status.reptetion_element.val + 1 < n
         THEN Repeating(status.repetion, Some(status.reptetion_element.val + 1))
         ELSE Repeating(status.repetion, None)
    ELSE Repeating(LoopAfter(status.repetion), IF n = 0 THEN None ELSE Some(0))

\* this step issues an action
IssuesAction == p_obs'.issued /= p_obs.issued /\ p_obs'.issued.some

\* C18: in every loop L, from 0 and one more per completed loop, the
\* statuses published are Repeating{L, Some(0)} .. Repeating{L, Some(n-1)},
\* then Repeating{L, None}; action i is issued after Repeating{L, Some(i)} is
\* published and before the next status is, so the actions are issued in
\* order, none skipped, none repeated.
C18_LoopProtocol ==
    /\ [][(p_status' /= p_status /\ p_status' /= Finished) =>
             /\ p_status' = StatusAfter(p_status)
             /\ p_status.state = "Repeating" /\ p_status.reptetion_element.some =>
                    p_obs.issued = p_status.reptetion_element]_vars
    /\ [][(IssuesAction /\ ~p_ctl.dropped) =>
             /\ p_status = Repeating(p_task.repetion, p_obs'.issued)
             /\ p_obs.issued /= p_obs'.issued
             /\ p_obs'.issued.val = IF p_obs.issued.some THEN p_obs.issued.val + 1 ELSE 0]_vars

\* the second loop over three actions is complete: its last action was
\* issued and Repeating{1, None} is published
C18_Witness ==
    /\ Len(p_inputs) = 3
    /\ p_status = Repeating(1, None)
    /\ p_obs.issued = Some(2)
    /\ p_task.pc = "loop_delay"

(* -------------------------------- C19 ---------------------------------- *)
\* C19: Finished is published only after the task has observed the stop
\* signal or the closed stop channel; once Finished is published no further
\* status is published and no further action is issued; the status never
\* returns to NotStarted.
C19_FinishedIsTerminal ==
    /\ [](p_status = Finished =>
              (p_task.pc = "done" /\ p_stop \in {"received", "closed"}))
    /\ [][p_status = Finished =>
              (p_status' = Finished /\ p_obs'.issued = p_obs.issued)]_vars
    /\ [][p_status /= NotStarted => p_status' /= NotStarted]_vars

\* stop() was called after an action had been issued, the task has observed
\* it and Finished is published
C19_Witness ==
    /\ p_status = Finished
    /\ p_obs.call = "stop"
    /\ p_obs.issued.some
    /\ p_stop = "received"

(* -------------------------------- C20 ---------------------------------- *)
\* C20: for every event sequence, in whatever order its absolute timestamps
\* appear, each relative timestamp is event.timestamp - first.timestamp and
\* each swipe duration is up_relative - down_relative, computed in u32
\* without underflow: no subtraction panics, and no timestamp or duration
\* that the reducer holds or emits is a wrapped value.
C20_NoUnderflow ==
    /\ r_pc /= "panicked"
    /\ r_st.down.some => r_st.down.val.time >= 0
    /\ \A k \in 1..Len(r_st.result) :
          /\ r_st.result[k].timestamp_milliseconds >= 0
          /\ r_st.result[k].input.kind = "Swipe" => r_st.result[k].input.milliseconds >= 0

(* -------------------------------- C15 ---------------------------------- *)
\* the controller was dropped and stop() had never been called on it
RecorderDroppedUnstopped ==
    rec_task.pc /= "absent" /\ rec_ctl.dropped /\ rec_obs.stops = 1

PlayerDroppedUnstopped ==
    p_task.pc /= "absent" /\ p_ctl.dropped /\ p_obs.stops = 1

\* C15: dropping a controller whose stop() was never called delivers the
\* stop signal as stop() would; the recording task then kills the capture
\* process and ends, the playback task issues no more actions and ends: no
\* task keeps running for ever after its controller is dropped.
C15_TeardownCancels ==
    /\ [](RecorderDroppedUnstopped =>
              (rec_kill /= "empty" \/ rec_task.pc = "panicked"))
    /\ [](PlayerDroppedUnstopped => p_stop /= "empty")
    /\ RecorderDroppedUnstopped ~>
           (rec_task.pc \in {"done", "panicked"} /\ rec_task.child /= "running")
    /\ PlayerDroppedUnstopped ~> (p_task.pc = "done")

(* -------------------------------- C16 ---------------------------------- *)
\* a playback task that can still issue an action: it is about to (it only
\* looks at the stop signal before the sleep that precedes an action), or it
\* has actions to play and no stop signal will make it leave its loop
MayStillIssue(inputs, stop, task) ==
    /\ inputs /= <<>>
    /\ \/ task.pc \in {"sleep", "publish", "issue"}
       \/ /\ task.pc \in {"loop_head", "check", "after_for", "swipe_pause",
                          "end_of_loop", "loop_delay"}
          /\ ~StopObserved(stop)

\* the playback tasks that exist: the one of the player made last, and the
\* orphaned ones of the players before it
PlaybackTasks ==
    (IF PlayerTaskEnded(p_task) THEN {} ELSE {OldPlayer(p_inputs, p_stop, p_task)})
    \cup {a_old_players[i] : i \in 1..Len(a_old_players)}

IssuingPlaybackTasks == {o \in PlaybackTasks : MayStillIssue(o.inputs, o.stop, o.task)}

\* the recording tasks whose capture process runs
CapturingRecorders ==
    (IF rec_task.child = "running" THEN {0} ELSE {})
    \cup {i \in 1..Len(a_old_recorders) : a_old_recorders[i].child = "running"}

\* C16: whatever the user clicks, there are never two playback tasks that
\* can both still issue actions, nor two recording tasks that both capture.
C16_OneActivityOfEachKind ==
    /\ Cardinality(IssuingPlaybackTasks) <= 1
    /\ Cardinality(CapturingRecorders) <= 1

(* -------------------------------- C21 ---------------------------------- *)
\* C21: the action emitted when an up closes a pending down is stamped with
\* the down's relative time; a Tap carries the position recorded at the down;
\* a Swipe carries the position recorded at the down as its start, the last
\* primary-slot position at the up as its end, and the up's relative time
\* minus the down's as its duration. Nothing else is emitted by that up.
C21_TouchActionFields ==
    [][(r_event'.some /\ r_event'.val.event = BtnTouch("Up")
        /\ r_st.is_slot_0_active /\ r_st.down.some)
       => LET d == r_st.down.val
              up == r_event'.val.timestamp_milliseconds - r_first'.val
              a == r_st'.result[Len(r_st'.result)]
          IN  /\ Len(r_st'.result) = Len(r_st.result) + 1
              /\ a.timestamp_milliseconds = d.time
              /\ \/ a.input = Tap(d.x, d.y)
                 \/ a.input = Swipe(d.x, d.y, r_st.last_x, r_st.last_y, up - d.time)]_vars

\* an up, later and elsewhere than its down, emitted a Swipe stamped with
\* the time of the down
C21_Witness ==
    /\ ClosedDown
    /\ r_down_was.val.time < RelativeTime
    /\ r_down_was.val.x /= r_st.last_x
    /\ LastResult.input.kind = "Swipe"
    /\ LastResult.timestamp_milliseconds = r_down_was.val.time
    /\ LastResult.input.x1 = r_st.last_x
    /\ LastResult.input.milliseconds = RelativeTime - r_down_was.val.time

(* -------------------------------- C22 ---------------------------------- *)
\* C22: a line made of the tokens of a valid action line is read as that
\* timed action, whatever ASCII whitespace (spaces or tabs, one or more)
\* separates two adjacent tokens, for tap, swipe and keyevent lines.
C22_WhitespaceTolerance ==
    c_read.some => c_read.val = Ok(c_inputs)

(* -------------------------------- C23 ---------------------------------- *)
\* try_from_str returned an Input record of the event, for event device nr
IsInputRecordOf(parsed, event) ==
    /\ parsed.ok
    /\ parsed.val.some
    /\ parsed.val.val.kind = "Input"
    /\ parsed.val.val.input.event_nr = 3
    /\ parsed.val.val.input.event = event

\* C23: every capture line '[<seconds>] /dev/input/event<N>: <EV_TYPE>
\* <EV_SUBTYPE> <value>' with a valid seconds field, a recognised sub-type
\* and a valid value is parsed to an Input record, whatever the number of
\* spaces (none included) between the opening bracket and the seconds field.
C23_EventLineRecognised ==
    \A k \in 1..Len(e_parsed) : IsInputRecordOf(e_parsed[k], e_capture[k].event)

(* -------------------------------- C24 ---------------------------------- *)
\* the whole milliseconds between the capture times of the two lines
GapMillis ==
    (e_capture[2].time.s - e_capture[1].time.s) * 1000
    + e_capture[2].time.ms - e_capture[1].time.ms

ParsedMillis(k) == e_parsed[k].val.val.input.timestamp_milliseconds

\* C24: two event lines whose capture times differ by d whole milliseconds
\* are parsed to timestamps that differ by d, whatever the seconds value.
C24_TimestampConversion ==
    (/\ Len(e_parsed) = 2
     /\ IsInputRecordOf(e_parsed[1], e_capture[1].event)
     /\ IsInputRecordOf(e_parsed[2], e_capture[2].event))
    => U32Sub(ParsedMillis(2), ParsedMillis(1)) = GapMillis

(* -------------------------------- C25 ---------------------------------- *)
\* what the reducer makes of the Input records parsed so far
ReducedCapture ==
    ConvertEventsToInput(rec_task.inputs, TapThresholdDistance, TapThresholdMs)

\* C25: however the capture stream ended (end of stream, or a read failure
\* in the middle of it), once the task has sent its result try_get_result
\* returns the reducer applied to exactly the Input records parsed up to that
\* point, the events that were published as RecordedInput, and no failure.
C25_PartialCaptureYieldsPrefix ==
    (rec_result.state = "ready" /\ ~rec_ctl.dropped) =>
        /\ TryGetResult(rec_ctl, rec_result).ret =
               [call |-> "try_get_result", ret |-> "Ok", val |-> ReducedCapture]
        /\ rec_obs.published = Len(rec_task.inputs)

(* -------------------------------- C26 ---------------------------------- *)
\* C26: when the playback task plays what the reducer made of a capture
\* with non-decreasing time stamps, the subtraction `timestamp_milliseconds -
\* last_millis` is never taken with the time stamp below last_millis, in any
\* loop.
C26_DeltaNeverUnderflows ==
    [][(PlayerCheck /\ ~StopObserved(p_stop)) => ~PlayerUnderflows(p_inputs, p_task)]_vars

(* -------------------------------- C27 ---------------------------------- *)
\* C27: while is_running() is true (no stop() yet, the recorder not dropped)
\* try_get_result does not return a sequence, also when the capture process
\* has exited on its own and its output streams are drained.
C27_NoResultWhileRunning ==
    RecorderIsRunning => TryGetResult(rec_ctl, rec_result).ret.ret /= "Ok"

\* the capture process exited on its own after printing events, both of its
\* streams are drained, and the owner, who never called stop(), was told by
\* try_get_result that the result is not yet available
C27_Witness ==
    /\ RecorderIsRunning
    /\ rec_task.child = "exited"
    /\ rec_task.reader = "ok"
    /\ rec_task.err_reader = "done"
    /\ Len(rec_task.inputs) >= 1
    /\ rec_obs.call = "try_get_result"
    /\ rec_ret = [call |-> "try_get_result", ret |-> "NotYetAvailable"]

(* -------------------------------- C28 ---------------------------------- *)
\* the last call of the owner read RecordingFinished from the status channel
ReadFinished ==
    /\ rec_ret.call = "read_next_status"
    /\ rec_ret.ret = "Ok"
    /\ rec_ret.val = RecordingFinished

\* C28: RecordingFinished is put on the status channel at most once, by the
\* last step of the task, after the result was sent and after every
\* RecordedInput; nothing is put on the channel after it. Once the owner can
\* have read it, try_get_result never returns NotYetAvailable.
C28_FinishedIsLastAndFollowsResult ==
    /\ [](\A k \in 1..Len(rec_status) :
             rec_status[k] = RecordingFinished =>
                 /\ k = Len(rec_status)
                 /\ rec_task.pc = "done"
                 /\ rec_result.state /= "empty")
    /\ [](ReadFinished => rec_task.pc = "done")
    /\ []((rec_task.pc = "done" /\ ~rec_ctl.dropped) =>
             TryGetResult(rec_ctl, rec_result).ret.ret /= "NotYetAvailable")
    /\ [][rec_task.pc = "done" =>
             /\ rec_task' = rec_task
             /\ \/ rec_status' = rec_status
                \/ rec_status /= <<>> /\ rec_status' = Tail(rec_status)]_vars

\* after a session that published a RecordedInput the owner read every
\* status message, RecordingFinished the last of them, and then got the
\* sequence from try_get_result
C28_Witness ==
    /\ rec_task.pc = "done"
    /\ ~rec_ctl.dropped
    /\ rec_obs.published >= 1
    /\ rec_status = <<>>
    /\ rec_obs.call = "try_get_result"
    /\ rec_ret.call = "try_get_result"
    /\ rec_ret.ret = "Ok"

====
